---- MODULE Spec2Model ----
(***************************************************************************)
(* Model of the scheme activation logic of                                 *)
(* src/engine/core/utils/scheme/scheme_logic.ts:                           *)
(*   isActiveSection, getSectionToActivate, activateSchemeBySection,       *)
(*   resetObjectGenericSchemesOnSectionSwitch, enableObjectBaseSchemes,    *)
(* and of the managers of src/engine/core/managers: the life cycle and     *)
(* the save order of SaveManager, the saved data and the status queries    *)
(* of TaskManager, the life cycle and the price checks of UpgradesManager. *)
(*                                                                         *)
(* One game object is modelled together with its registry records          *)
(* (registry.objects, registry.offlineObjects). The game is single         *)
(* threaded: every exported function runs to completion, so each call is   *)
(* one action. What happens inside a call (the order of the callbacks it   *)
(* invokes and the state each callback can observe) is recorded in the     *)
(* variable trace, the log of the last call.                               *)
(***************************************************************************)
EXTENDS Integers, Sequences, FiniteSets, TLC

VARIABLES
  st,         \* registry.objects.get(object.id()): IRegistryObjectState
  obj,        \* engine-side fields of the game object
  offline,    \* registry.offlineObjects.get(object.id()): IRegistryOfflineState
  call,       \* arguments and inputs of the last call
  result,     \* outcome of the last call: "ok" or the assertion that failed
  resolution, \* what the last getSectionToActivate returned, and from where
  trace,      \* log of the steps of the last activateSchemeBySection
  world       \* the managers: who is initialized, the callbacks of the
              \* EventsManager, taskConfig.ACTIVE_TASKS, the save packet

vars == <<st, obj, offline, call, result, resolution, trace, world>>

----------------------------------------------------------------------------
(* Bounds of the model *)

\* time_global() and game.get_game_time() answer a time from 1 to MaxClock
MaxClock == 2

\* how deep callbacks may nest a further activation inside an activation
MaxNesting == 1

\* how many values a manager holds at most when the game is saved
MaxHeld == 2

----------------------------------------------------------------------------
(* Values *)

\* null / undefined of the source
NULL == "null"

\* the "nil" word, the sentinel for "no active logic"
NIL == "nil"

\* EScheme.NIL
SchemeNIL == "nil"

\* state.overrides = null
NoOverrides == <<>>

\* no record in registry.offlineObjects for the object
NoRecord == [exists |-> FALSE, activeSection |-> NULL]

OfflineRecord(section) == [exists |-> TRUE, activeSection |-> section]

\* logic sections that occur as activation targets
Sections == {"patrol@a", "guard@b", "ghost@c", "123"}

\* sections asked from getSectionToActivate
RequestSections == {"logic", "patrol@a", "guard@b", "missing"}

\* ESchemeType
SchemeTypes == {"STALKER", "MONSTER", "OBJECT", "HELICOPTER"}

\* class ids of the modelled objects
ClsIds == {"script_stalker", "bloodsucker_s", "boar_s", "script_object", "script_heli"}

SchemeTypeOf(clsid) ==
  CASE clsid = "script_stalker" -> "STALKER"
    [] clsid \in {"bloodsucker_s", "boar_s"} -> "MONSTER"
    [] clsid = "script_object" -> "OBJECT"
    [] OTHER -> "HELICOPTER"

\* getSchemeFromSection: the scheme name is the section name up to "@" with
\* the digits removed; nothing is left of a section made of digits only
getSchemeFromSection(section) ==
  CASE section = "patrol@a" -> "patrol"
    [] section = "guard@b" -> "guard"
    [] section = "ghost@c" -> "ghost"
    [] section = NIL -> SchemeNIL
    [] OTHER -> NULL

\* registry.schemes: schemes that have an implementation registered
RegisteredSchemes == {"patrol", "guard"}

\* ini files an object's logic can be read from
IniNames == {"full", "old"}

IniSections(ini) ==
  IF ini = "full"
  THEN {"logic", "patrol@a", "guard@b", "ghost@c", "123"}
  ELSE {"logic", "patrol@a", "ghost@c", "123"}

\* ini.section_exist(section)
section_exist(ini, section) == section \in IniSections(ini)

\* readIniConditionList(ini, section, "active"): the parsed condition list,
\* <<>> standing for an absent field
readIniConditionList(ini, section) ==
  IF section # "logic" THEN <<>>
  ELSE IF ini = "full"
  THEN << [cond |-> "health_low", section |-> "patrol@a"],
          [cond |-> "always", section |-> "guard@b"] >>
  ELSE << [cond |-> "health_low", section |-> "patrol@a"] >>

RECURSIVE pickSectionFromCondList(_, _)
\* pickSectionFromCondList: the section of the first branch whose condition
\* holds, null when there is none
pickSectionFromCondList(healthLow, condlist) ==
  IF condlist = <<>> THEN NULL
  ELSE IF Head(condlist).cond = "always" \/ (Head(condlist).cond = "health_low" /\ healthLow)
  THEN Head(condlist).section
  ELSE pickSectionFromCondList(healthLow, Tail(condlist))

\* getObjectConfigOverrides(ini, section, object): the overrides of a section
getObjectConfigOverrides(ini, section) == <<section>>

\* getObjectTerrain(object) and getTerrainJobByObjectId(terrain, id)?.section:
\* no terrain, a terrain without a job for the object, a terrain job
NoTerrain == "no_terrain"
NoJob == "no_job"
Terrains == {NoTerrain, NoJob, "patrol@a", "guard@b"}

JobSection(terrain) == IF terrain = NoJob THEN NULL ELSE terrain

----------------------------------------------------------------------------
(* The log of a call *)

\* what a callback sees of the object's state when it runs
Seen(x) == <<x.st.activeSection, x.st.activeScheme, x.st.overrides>>

Entry(x, depth, op, scheme, section, isLoading) ==
  [depth |-> depth, op |-> op, scheme |-> scheme, section |-> section,
   isLoading |-> isLoading, slot |-> scheme \in x.st.slots, seen |-> Seen(x)]

Log(x, depth, op, scheme, section, isLoading) ==
  [x EXCEPT !.trace = Append(@, Entry(x, depth, op, scheme, section, isLoading))]

Fail(x, error) == [x EXCEPT !.error = error]

\* a failed assertion ends the call: the next step runs only when the steps
\* before it did not fail
Then(x, F(_)) == IF x.error # NULL THEN x ELSE F(x)

----------------------------------------------------------------------------
(* resetObjectGenericSchemesOnSectionSwitch *)

\* StalkerBundle with the reset of danger moved to the front
StalkerBundleDangerFirst ==
  << "danger", "meet", "help_wounded", "corpse_detection", "abuse", "wounded", "death",
     "gather_items", "combat_ignore", "hear",
     "updateObjectMapSpot", "initializeObjectIgnoreThreshold",
     "initializeObjectInvulnerability", "initializeObjectGroup",
     "initializeObjectTakeItemsEnabledState",
     "initializeObjectCanSelectWeaponState", "activateForObject" >>

\* the steps of the reset per scheme type, in the order of the source
StalkerBundle ==
  << "meet", "help_wounded", "corpse_detection", "abuse", "wounded", "death",
     "danger", "gather_items", "combat_ignore", "hear",
     "updateObjectMapSpot", "initializeObjectIgnoreThreshold",
     "initializeObjectInvulnerability", "initializeObjectGroup",
     "initializeObjectTakeItemsEnabledState",
     "initializeObjectCanSelectWeaponState", "activateForObject" >>

\* MonsterBundle that toggles the manual invisibility of every monster
MonsterBundleAllInvisible(clsid) ==
  << "scriptReleaseMonster", "set_manual_invisibility",
     "combat_ignore", "hear", "initializeObjectInvulnerability", "activateForObject" >>

MonsterBundle(clsid) ==
  << "scriptReleaseMonster" >>
  \o (IF clsid = "bloodsucker_s" THEN << "set_manual_invisibility" >> ELSE << >>)
  \o << "combat_ignore", "hear", "initializeObjectInvulnerability", "activateForObject" >>

ObjectBundle == << "set_callback", "set_nonscript_usable" >>

GenericBundle(schemeType, clsid) ==
  CASE schemeType = "STALKER" -> StalkerBundle
    [] schemeType = "MONSTER" -> MonsterBundle(clsid)
    [] schemeType = "OBJECT" -> ObjectBundle
    [] OTHER -> << >>

\* the steps that call registry.schemes.get(scheme).reset(...)
SchemeResetSteps ==
  { "meet", "help_wounded", "corpse_detection", "abuse", "wounded", "death",
    "danger", "gather_items", "combat_ignore", "hear" }

\* what a step of the reset changes on the game object
StepEffect(x, step, scheme) ==
  CASE step = "set_manual_invisibility" ->
         [x EXCEPT !.obj.manualInvisibility = (scheme # SchemeNIL)]
    [] step = "set_callback" -> [x EXCEPT !.obj.useCallback = NULL]
    [] step = "set_nonscript_usable" -> [x EXCEPT !.obj.nonscriptUsable = TRUE]
    [] OTHER -> x

RECURSIVE activateSchemeBySection(_, _, _)
RECURSIVE RunBundle(_, _, _, _, _)

\* A callback (a scheme's reset or activate, a handler of the activation
\* event) is code outside this file. x.plan lists the further activations
\* such code requests for the same object: the head of the plan is run by
\* the first callback of the kind it names.
Callback(x, depth, point) ==
  IF x.error = NULL /\ x.plan # << >> /\ Head(x.plan).at = point
  THEN activateSchemeBySection([x EXCEPT !.plan = Tail(@)], depth + 1, Head(x.plan).call)
  ELSE x

RunBundle(x, depth, steps, scheme, section) ==
  IF steps = << >> \/ x.error # NULL THEN x
  ELSE LET step == Head(steps)
           x1 == StepEffect(Log(x, depth, step, scheme, section, FALSE), step, scheme)
           x2 == IF step \in SchemeResetSteps THEN Callback(x1, depth, "reset") ELSE x1
       IN RunBundle(x2, depth, Tail(steps), scheme, section)

resetObjectGenericSchemesOnSectionSwitch(x, depth, scheme, section) ==
  Then(RunBundle(Log(x, depth, "resetBegin", scheme, section, FALSE), depth,
                 GenericBundle(x.st.schemeType, x.obj.clsid), scheme, section),
       LAMBDA y : Log(y, depth, "resetEnd", scheme, section, FALSE))

----------------------------------------------------------------------------
(* activateSchemeBySection *)

\* StampActivation that stamps also while loading
StampActivationAlways(x, depth, c) ==
  Log([x EXCEPT !.st.activationTime = x.now, !.st.activationGameTime = x.now],
      depth, "stamp", NULL, NULL, c.isLoading)

\* lines 120-123
StampActivation(x, depth, c) ==
  IF ~c.isLoading
  THEN Log([x EXCEPT !.st.activationTime = x.now, !.st.activationGameTime = x.now],
           depth, "stamp", NULL, NULL, c.isLoading)
  ELSE x

\* ActivateNil that stores the section it was given as the active section
ActivateNilStoresSentinel(x, depth) ==
  Then(resetObjectGenericSchemesOnSectionSwitch([x EXCEPT !.st.overrides = NoOverrides],
                                                depth, SchemeNIL, NIL),
       LAMBDA y : Log([y EXCEPT !.st.activeSection = NIL, !.st.activeScheme = NULL],
                      depth, "commit", NULL, NULL, FALSE))

\* ActivateNil with the scheme left in place
ActivateNilKeepsScheme(x, depth) ==
  Then(resetObjectGenericSchemesOnSectionSwitch([x EXCEPT !.st.overrides = NoOverrides],
                                                depth, SchemeNIL, NIL),
       LAMBDA y : Log([y EXCEPT !.st.activeSection = NULL], depth, "commit", NULL, NULL, FALSE))

\* ActivateNil with the overrides left in place
ActivateNilKeepsOverrides(x, depth) ==
  Then(resetObjectGenericSchemesOnSectionSwitch(x, depth, SchemeNIL, NIL),
       LAMBDA y : Log([y EXCEPT !.st.activeSection = NULL, !.st.activeScheme = NULL],
                      depth, "commit", NULL, NULL, FALSE))

\* ActivateNil that clears the section and scheme before the reset
ActivateNilClearsFirst(x, depth) ==
  resetObjectGenericSchemesOnSectionSwitch(
    Log([x EXCEPT !.st.overrides = NoOverrides, !.st.activeSection = NULL, !.st.activeScheme = NULL],
        depth, "commit", NULL, NULL, FALSE),
    depth, SchemeNIL, NIL)

\* lines 125-134: the transition to "no active logic"
ActivateNil(x, depth) ==
  Then(resetObjectGenericSchemesOnSectionSwitch([x EXCEPT !.st.overrides = NoOverrides],
                                                depth, SchemeNIL, NIL),
       LAMBDA y : Log([y EXCEPT !.st.activeSection = NULL, !.st.activeScheme = NULL],
                      depth, "commit", NULL, NULL, FALSE))

\* TerrainAssigned without the assertion of line 140
TerrainAssignedAlways(c) == TRUE

\* lines 137-143: the section of the terrain job when no section is given
TerrainAssigned(c) == ~(c.section = NULL /\ c.terrain = NoTerrain)

TargetSection(c) == IF c.section = NULL THEN JobSection(c.terrain) ELSE c.section

\* PrepareGeneric with the overrides of line 150 written after the reset
PrepareGenericOverridesLate(x, depth, c, scheme, section) ==
  Log([resetObjectGenericSchemesOnSectionSwitch(x, depth, scheme, section)
         EXCEPT !.st.overrides = getObjectConfigOverrides(c.ini, section)],
      depth, "setOverrides", scheme, section, FALSE)

\* lines 150-152
PrepareGeneric(x, depth, c, scheme, section) ==
  resetObjectGenericSchemesOnSectionSwitch(
    Log([x EXCEPT !.st.overrides = getObjectConfigOverrides(c.ini, section)],
        depth, "setOverrides", scheme, section, FALSE),
    depth, scheme, section)

\* AbstractScheme.activate of the target scheme: it creates the scheme's
\* slot state[scheme] when there is none
SchemeActivate(x, depth, scheme, section) ==
  Callback([Log(x, depth, "activate", scheme, section, FALSE) EXCEPT !.st.slots = @ \cup {scheme}],
           depth, "activate")

\* InvokeActivate without the assertion of line 156
InvokeActivateUnchecked(x, depth, scheme, section) ==
  SchemeActivate(x, depth, scheme, section)

\* lines 154-160
InvokeActivate(x, depth, scheme, section) ==
  IF scheme \notin RegisteredSchemes THEN Fail(x, "SchemeNotRegistered")
  ELSE SchemeActivate(x, depth, scheme, section)

\* Commit that drops the slot of the scheme it replaces
CommitDropsSlot(x, depth, scheme, section) ==
  Log([x EXCEPT !.st.activeSection = section, !.st.activeScheme = scheme,
                !.st.slots = @ \ ({x.st.activeScheme} \ {scheme})],
      depth, "commit", scheme, section, FALSE)

\* lines 162-163
Commit(x, depth, scheme, section) ==
  Log([x EXCEPT !.st.activeSection = section, !.st.activeScheme = scheme],
      depth, "commit", scheme, section, FALSE)

\* Reposition without the test of the scheme type
RepositionAnyType(x, depth, scheme, section) ==
  Log(x, depth, "sendToNearestAccessibleVertex", scheme, section, FALSE)

\* lines 165-167
Reposition(x, depth, scheme, section) ==
  IF x.st.schemeType = "STALKER"
  THEN Log(x, depth, "sendToNearestAccessibleVertex", scheme, section, FALSE)
  ELSE x

\* EmitActivation that does not pass the isLoading flag on
EmitActivationNoFlag(x, depth, c, scheme, section) ==
  Callback(Log(x, depth, "emitSchemeEvent", scheme, section, FALSE), depth, "event")

\* line 169: emitSchemeEvent(state[scheme], ESchemeEvent.ACTIVATE, object, isLoading)
EmitActivation(x, depth, c, scheme, section) ==
  Callback(Log(x, depth, "emitSchemeEvent", scheme, section, c.isLoading), depth, "event")

\* ActivateSection with the commit of lines 162-163 moved before the
\* scheme's activate
ActivateSectionCommitEarly(x, depth, c, scheme, section) ==
  Then(Then(Then(Then(PrepareGeneric(x, depth, c, scheme, section),
                      LAMBDA y : Commit(y, depth, scheme, section)),
                 LAMBDA y : InvokeActivate(y, depth, scheme, section)),
            LAMBDA y : Reposition(y, depth, scheme, section)),
       LAMBDA y : EmitActivation(y, depth, c, scheme, section))

\* ActivateSection with the generic reset run after the scheme's activate
ActivateSectionResetLate(x, depth, c, scheme, section) ==
  Then(Then(Then(Then(InvokeActivate(x, depth, scheme, section),
                      LAMBDA y : PrepareGeneric(y, depth, c, scheme, section)),
                 LAMBDA y : Commit(y, depth, scheme, section)),
            LAMBDA y : Reposition(y, depth, scheme, section)),
       LAMBDA y : EmitActivation(y, depth, c, scheme, section))

\* lines 150-169, each step run only when the one before it did not fail
ActivateSection(x, depth, c, scheme, section) ==
  Then(Then(Then(Then(PrepareGeneric(x, depth, c, scheme, section),
                      LAMBDA y : InvokeActivate(y, depth, scheme, section)),
                 LAMBDA y : Commit(y, depth, scheme, section)),
            LAMBDA y : Reposition(y, depth, scheme, section)),
       LAMBDA y : EmitActivation(y, depth, c, scheme, section))

\* ActivateTarget with the assertion of line 148 run after lines 150-152
ActivateTargetLateExistCheck(x, depth, c) ==
  LET section == TargetSection(c)
      scheme == getSchemeFromSection(section)
  IN IF ~TerrainAssigned(c) THEN Fail(x, "NotAssignedToTerrain")
     ELSE IF scheme = NULL THEN Fail(x, "UnresolvedScheme")
     ELSE IF ~section_exist(c.ini, section)
          THEN Fail(PrepareGeneric(x, depth, c, scheme, section), "SectionNotExist")
     ELSE ActivateSection(x, depth, c, scheme, section)

\* ActivateTarget that returns early when the target is the active section
ActivateTargetUnlessActive(x, depth, c) ==
  LET section == TargetSection(c)
      scheme == getSchemeFromSection(section)
  IN IF ~TerrainAssigned(c) THEN Fail(x, "NotAssignedToTerrain")
     ELSE IF scheme = NULL THEN Fail(x, "UnresolvedScheme")
     ELSE IF ~section_exist(c.ini, section) THEN Fail(x, "SectionNotExist")
     ELSE IF section = x.st.activeSection THEN x
     ELSE ActivateSection(x, depth, c, scheme, section)

\* lines 136-169
ActivateTarget(x, depth, c) ==
  LET section == TargetSection(c)
      scheme == getSchemeFromSection(section)
  IN IF ~TerrainAssigned(c) THEN Fail(x, "NotAssignedToTerrain")
     ELSE IF scheme = NULL THEN Fail(x, "UnresolvedScheme")
     ELSE IF ~section_exist(c.ini, section) THEN Fail(x, "SectionNotExist")
     ELSE ActivateSection(x, depth, c, scheme, section)

\* lines 107-170
\* activateSchemeBySection with lines 120-123 run after the target is activated
activateSchemeBySectionStampLate(x, depth, c) ==
  Then(IF c.section = NIL
       THEN ActivateNil(Log(x, depth, "enter", NULL, c.section, c.isLoading), depth)
       ELSE ActivateTarget(Log(x, depth, "enter", NULL, c.section, c.isLoading), depth, c),
       LAMBDA y : StampActivation(y, depth, c))

activateSchemeBySection(x, depth, c) ==
  IF c.section = NIL
  THEN ActivateNil(StampActivation(Log(x, depth, "enter", NULL, c.section, c.isLoading), depth, c), depth)
  ELSE ActivateTarget(StampActivation(Log(x, depth, "enter", NULL, c.section, c.isLoading), depth, c),
                      depth, c)

----------------------------------------------------------------------------
(* getSectionToActivate *)

\* RetryOffline without the check that the recorded section still exists
RetryOfflineUnchecked(off, ini) ==
  IF off.exists /\ off.activeSection # NULL
  THEN [retry |-> off.activeSection, offline |-> [off EXCEPT !.activeSection = NULL]]
  ELSE [retry |-> NULL, offline |-> off]

\* RetryOffline with the record cleared only when its section is not used
RetryOfflineKeepsRecord(off, ini) ==
  IF off.exists /\ off.activeSection # NULL
  THEN IF section_exist(ini, off.activeSection)
       THEN [retry |-> off.activeSection, offline |-> off]
       ELSE [retry |-> NULL, offline |-> [off EXCEPT !.activeSection = NULL]]
  ELSE [retry |-> NULL, offline |-> off]

\* RetryOffline that removes the record it has read
RetryOfflineDestroysRecord(off, ini) ==
  IF off.exists /\ off.activeSection # NULL
  THEN [retry |-> IF section_exist(ini, off.activeSection) THEN off.activeSection ELSE NULL,
        offline |-> NoRecord]
  ELSE [retry |-> NULL, offline |-> NoRecord]

\* RetryOffline that clears the record only when its section is used
RetryOfflineClearsWhenUsed(off, ini) ==
  IF off.exists /\ off.activeSection # NULL
  THEN IF section_exist(ini, off.activeSection)
       THEN [retry |-> off.activeSection, offline |-> [off EXCEPT !.activeSection = NULL]]
       ELSE [retry |-> NULL, offline |-> off]
  ELSE [retry |-> NULL, offline |-> off]

\* lines 66-79: the section to retry after the offline -> online switch, and
\* the offline record as the function leaves it
RetryOffline(off, ini) ==
  IF off.exists /\ off.activeSection # NULL
  THEN [retry |-> IF section_exist(ini, off.activeSection) THEN off.activeSection ELSE NULL,
        offline |-> [off EXCEPT !.activeSection = NULL]]
  ELSE [retry |-> NULL, offline |-> off]

\* ActiveDefault that answers "nil" when no branch of the field matches
ActiveDefaultSilent(ini, section, healthLow) ==
  LET condlist == readIniConditionList(ini, section)
      picked == pickSectionFromCondList(healthLow, condlist)
  IN IF condlist = << >> \/ picked = NULL THEN [ret |-> NIL, from |-> "none", error |-> NULL]
     ELSE [ret |-> picked, from |-> "active", error |-> NULL]

\* ActiveDefault that answers the last branch of the field without
\* evaluating the conditions
ActiveDefaultLastBranch(ini, section, healthLow) ==
  LET condlist == readIniConditionList(ini, section)
  IN IF condlist = << >> THEN [ret |-> NIL, from |-> "none", error |-> NULL]
     ELSE [ret |-> condlist[Len(condlist)].section, from |-> "active", error |-> NULL]

\* ActiveDefault that answers no section, instead of "nil", for a section
\* without the field
ActiveDefaultAbsent(ini, section, healthLow) ==
  LET condlist == readIniConditionList(ini, section)
      picked == pickSectionFromCondList(healthLow, condlist)
  IN IF condlist = << >> THEN [ret |-> NULL, from |-> "none", error |-> NULL]
     ELSE IF picked = NULL THEN [ret |-> NULL, from |-> "active", error |-> "NoElseClause"]
     ELSE [ret |-> picked, from |-> "active", error |-> NULL]

\* lines 81-92: the section the "active" field of the section yields
ActiveDefault(ini, section, healthLow) ==
  LET condlist == readIniConditionList(ini, section)
      picked == pickSectionFromCondList(healthLow, condlist)
  IN IF condlist = << >> THEN [ret |-> NIL, from |-> "none", error |-> NULL]
     ELSE IF picked = NULL THEN [ret |-> NULL, from |-> "active", error |-> "NoElseClause"]
     ELSE [ret |-> picked, from |-> "active", error |-> NULL]

\* getSectionToActivate that reads the offline record before it tests the
\* requested section
getSectionToActivateOfflineFirst(off, ini, section, healthLow) ==
  LET r == RetryOffline(off, ini)
      d == ActiveDefault(ini, section, healthLow)
  IN IF r.retry # NULL
     THEN [ret |-> r.retry, from |-> "offline", error |-> NULL, offline |-> r.offline]
     ELSE IF ~section_exist(ini, section)
     THEN [ret |-> NIL, from |-> "missing", error |-> NULL, offline |-> r.offline]
     ELSE [ret |-> d.ret, from |-> d.from, error |-> d.error, offline |-> r.offline]

\* lines 61-93
getSectionToActivate(off, ini, section, healthLow) ==
  IF ~section_exist(ini, section)
  THEN [ret |-> NIL, from |-> "missing", error |-> NULL, offline |-> off]
  ELSE LET r == RetryOffline(off, ini)
           d == ActiveDefault(ini, section, healthLow)
       IN IF r.retry # NULL
          THEN [ret |-> r.retry, from |-> "offline", error |-> NULL, offline |-> r.offline]
          ELSE [ret |-> d.ret, from |-> d.from, error |-> d.error, offline |-> r.offline]

\* isActiveSection that compares the scheme of the section with the active
\* scheme
isActiveSectionByScheme(section) == getSchemeFromSection(section) = st.activeScheme

\* lines 47-49
isActiveSection(section) == section = st.activeSection

----------------------------------------------------------------------------
(* enableObjectBaseSchemes *)

\* the fields of the logics section that name the section of a base scheme
BaseFields == {"on_combat", "info", "on_hit", "wounded", "meet", "on_death"}

\* the section a field names when the logics section has the field
FieldSection(field) ==
  CASE field = "on_combat" -> "combat@x"
    [] field = "info" -> "info@x"
    [] field = "on_hit" -> "hit@x"
    [] field = "wounded" -> "wounded@x"
    [] field = "meet" -> "meet@x"
    [] field = "on_death" -> "death@x"

\* readIniString(ini, section, field, required): the value of the field,
\* null for a missing field that is not required; fields is what the section
\* of the ini holds
readIniString(fields, field, required) ==
  IF field \in fields THEN [value |-> FieldSection(field), error |-> NULL]
  ELSE IF required THEN [value |-> NULL, error |-> "FieldRequired"]
  ELSE [value |-> NULL, error |-> NULL]

\* One step of enableObjectBaseSchemes: op is "enable" for
\* registry.schemes.get(scheme).activate(...) and the name of the function
\* otherwise. A step with a field reads its section from the field; guarded
\* tells that the step is inside "if (section !== null)". A step without a
\* field passes the section written in the source ("logics" stands for the
\* logicsSection argument).
BaseStep(op, scheme, field, guarded, section) ==
  [op |-> op, scheme |-> scheme, field |-> field, guarded |-> guarded, section |-> section]

\* lines 187-233
StalkerBase ==
  << BaseStep("enable", "danger", NULL, FALSE, "danger"),
     BaseStep("enable", "gather_items", NULL, FALSE, "gather_items"),
     BaseStep("enable", "combat", "on_combat", FALSE, NULL),
     BaseStep("initializeObjectInvulnerability", NULL, NULL, FALSE, NULL),
     BaseStep("initializeObjectInfo", NULL, "info", TRUE, NULL),
     BaseStep("enable", "hit", "on_hit", TRUE, NULL),
     BaseStep("enable", "wounded", "wounded", FALSE, NULL),
     BaseStep("enable", "abuse", NULL, FALSE, "logics"),
     BaseStep("enable", "help_wounded", NULL, FALSE, NULL),
     BaseStep("enable", "corpse_detection", NULL, FALSE, NULL),
     BaseStep("enable", "meet", "meet", FALSE, NULL),
     BaseStep("enable", "death", "on_death", FALSE, NULL),
     BaseStep("enable", "combat_ignore", NULL, FALSE, NULL),
     BaseStep("enable", "reach_task", NULL, FALSE, NULL) >>

\* MonsterBase that activates the combat scheme whatever the field says
MonsterBaseCombatAlways ==
  << BaseStep("enable", "mob_combat", "on_combat", FALSE, NULL),
     BaseStep("enable", "mob_death", "on_death", TRUE, NULL),
     BaseStep("initializeObjectInvulnerability", NULL, NULL, FALSE, NULL),
     BaseStep("enable", "hit", "on_hit", TRUE, NULL),
     BaseStep("enable", "combat_ignore", NULL, FALSE, NULL) >>

\* lines 236-260
MonsterBase ==
  << BaseStep("enable", "mob_combat", "on_combat", TRUE, NULL),
     BaseStep("enable", "mob_death", "on_death", TRUE, NULL),
     BaseStep("initializeObjectInvulnerability", NULL, NULL, FALSE, NULL),
     BaseStep("enable", "hit", "on_hit", TRUE, NULL),
     BaseStep("enable", "combat_ignore", NULL, FALSE, NULL) >>

\* lines 263-271
ObjectBase == << BaseStep("enable", "ph_on_hit", "on_hit", TRUE, NULL) >>

\* lines 273-281
HelicopterBase == << BaseStep("enable", "hit", "on_hit", TRUE, NULL) >>

BaseBundle(schemeType) ==
  CASE schemeType = "STALKER" -> StalkerBase
    [] schemeType = "MONSTER" -> MonsterBase
    [] schemeType = "OBJECT" -> ObjectBase
    [] schemeType = "HELICOPTER" -> HelicopterBase

\* a step run with section: the activate of a base scheme creates the
\* scheme's slot state[scheme] when there is none
RunBaseStep(x, step, section) ==
  IF step.op = "enable"
  THEN [Log(x, 1, step.op, step.scheme, section, FALSE) EXCEPT !.st.slots = @ \cup {step.scheme}]
  ELSE Log(x, 1, step.op, step.scheme, section, FALSE)

\* EnableStep with every field read as a required one
EnableStepRequired(x, step, fields, logicsSection) ==
  IF step.field = NULL
  THEN RunBaseStep(x, step, IF step.section = "logics" THEN logicsSection ELSE step.section)
  ELSE LET read == readIniString(fields, step.field, ~step.guarded)
       IN IF read.error # NULL THEN Fail(x, read.error)
          ELSE IF step.guarded /\ read.value = NULL THEN x
          ELSE RunBaseStep(x, step, read.value)

\* a step as the source runs it: every field is read with required = false
EnableStep(x, step, fields, logicsSection) ==
  IF step.field = NULL
  THEN RunBaseStep(x, step, IF step.section = "logics" THEN logicsSection ELSE step.section)
  ELSE LET read == readIniString(fields, step.field, FALSE)
       IN IF read.error # NULL THEN Fail(x, read.error)
          ELSE IF step.guarded /\ read.value = NULL THEN x
          ELSE RunBaseStep(x, step, read.value)

RECURSIVE RunBase(_, _, _, _)
RunBase(x, steps, fields, logicsSection) ==
  IF steps = << >> \/ x.error # NULL THEN x
  ELSE RunBase(EnableStep(x, Head(steps), fields, logicsSection), Tail(steps), fields, logicsSection)

\* lines 180-286
enableObjectBaseSchemes(x, schemeType, fields, logicsSection) ==
  RunBase(x, BaseBundle(schemeType), fields, logicsSection)

----------------------------------------------------------------------------
(* The managers *)

\* the managers of the model
Managers == {"TaskManager", "SaveManager", "UpgradesManager"}

\* the tasks a game can give
TaskIds == {"hide_from_surge", "test_task"}

\* the game before any manager is created: no callbacks, no active tasks,
\* an empty packet of which nothing has been written or read
NoWorld ==
  [managers |-> {}, subscribers |-> {}, tasks |-> {}, saved |-> {},
   dataList |-> << >>, writeDataOrder |-> << >>, readDataOrder |-> << >>,
   held |-> << >>, kind |-> NULL,
   actor |-> FALSE, money |-> 0, discount |-> 100, mechanic |-> NULL]

\* --- TaskManager.save / TaskManager.load -------------------------------

\* ETaskState
TaskStates == {"NEW", "COMPLETED", "FAIL", "REVERSED"}

\* the number a state is saved as, and the state a saved number stands for
StateCode(state) ==
  CASE state = "NEW" -> 2
    [] state = "COMPLETED" -> 0
    [] state = "FAIL" -> 1
    [] state = "REVERSED" -> 3

CodeState(code) == CHOOSE state \in TaskStates : StateCode(state) = code

\* the time of the game when the tasks of the test are given: 12.06.2012 9:30
GameTime == [Y |-> 12, M |-> 6, D |-> 12, h |-> 9, m |-> 30, s |-> 0, ms |-> 0]

\* the texts the configuration of a task names
TitleOf(id) ==
  CASE id = "hide_from_surge" -> "hide_from_surge_name_1"
    [] OTHER -> "test_task_name"

DescriptionOf(id) ==
  CASE id = "hide_from_surge" -> "translated_hide_from_surge_descr_1_a"
    [] OTHER -> "translated_test_task_descr"

\* the task giveTask(id) creates: new, given now, with the texts its
\* configuration names and no target
NewTask(id) ==
  [id |-> id, state |-> "NEW", time |-> GameTime,
   title |-> TitleOf(id), description |-> DescriptionOf(id), target |-> NIL]

\* one value written to the packet with the type it is written as
Written(type, value) == [type |-> type, value |-> value]

\* writeTimeToPacket: six bytes and the milliseconds
TimeWritten(time) ==
  << Written("U8", time.Y), Written("U8", time.M), Written("U8", time.D),
     Written("U8", time.h), Written("U8", time.m), Written("U8", time.s),
     Written("U16", time.ms) >>

\* what is written between openSaveMarker and closeSaveMarker, followed by
\* the number of values written in between
Marked(body) == body \o << Written("U16", Len(body)) >>

\* TaskObject.save that writes the milliseconds of the time as a byte
TaskObjectSaveByteTime(task) ==
  Marked(<< Written("U8", StateCode(task.state)) >>
         \o [i \in 1..Len(TimeWritten(task.time)) |-> Written("U8", TimeWritten(task.time)[i].value)]
         \o << Written("STRING", task.title), Written("STRING", task.description),
               Written("STRING", task.target) >>)

\* TaskObject.save
TaskObjectSave(task) ==
  Marked(<< Written("U8", StateCode(task.state)) >>
         \o TimeWritten(task.time)
         \o << Written("STRING", task.title), Written("STRING", task.description),
               Written("STRING", task.target) >>)

\* the orders in which the table of tasks can be walked
TaskOrders(tasks) ==
  { order \in [1..Cardinality(tasks) -> tasks] :
      \A i, j \in 1..Cardinality(tasks) : order[i] = order[j] => i = j }

RECURSIVE TasksSave(_)
TasksSave(order) ==
  IF order = << >> THEN << >>
  ELSE << Written("STRING", Head(order).id) >> \o TaskObjectSave(Head(order)) \o TasksSave(Tail(order))

\* TaskManager.save with the table walked in the given order
TaskManagerSave(order) == Marked(<< Written("U16", Len(order)) >> \o TasksSave(order))

\* the reader of a packet: what is left of the data, the types read so far,
\* the values of the last read, the error that ended the reading
Reader(data) == [data |-> data, read |-> << >>, values |-> << >>, error |-> NULL]

\* the values of the given types are read from the packet one after the other
Take(r, types) ==
  IF r.error # NULL THEN r
  ELSE IF Len(r.data) < Len(types) THEN [r EXCEPT !.error = "EndOfPacket"]
  ELSE [data |-> SubSeq(r.data, Len(types) + 1, Len(r.data)),
        read |-> r.read \o types,
        values |-> [i \in 1..Len(types) |-> r.data[i].value],
        error |-> NULL]

\* closeLoadMarker: the number saved after the values has to be the number
\* of values read since openLoadMarker
CheckMarker(r, start) ==
  IF r.error # NULL THEN r
  ELSE IF r.values[1] # Len(r.read) - 1 - start THEN [r EXCEPT !.error = "MarkerMismatch"]
  ELSE r

\* readTimeFromPacket
TimeTypes == << "U8", "U8", "U8", "U8", "U8", "U8", "U16" >>

\* TaskObject.load: the types it reads
TaskObjectTypes == << "U8" >> \o TimeTypes \o << "STRING", "STRING", "STRING" >>

\* the task of the given id as TaskObject.load reads it: the reader after
\* it, and the task
LoadTask(r0) ==
  LET r1 == Take(r0, << "STRING" >>)
      r2 == Take(r1, TaskObjectTypes)
      r3 == CheckMarker(Take(r2, << "U16" >>), Len(r1.read))
  IN IF r3.error # NULL THEN [reader |-> r3, tasks |-> {}]
     ELSE [reader |-> r3,
           tasks |-> {[id |-> r1.values[1], state |-> CodeState(r2.values[1]),
                       time |-> [Y |-> r2.values[2], M |-> r2.values[3], D |-> r2.values[4],
                                 h |-> r2.values[5], m |-> r2.values[6], s |-> r2.values[7],
                                 ms |-> r2.values[8]],
                       title |-> r2.values[9], description |-> r2.values[10],
                       target |-> r2.values[11]]}]

RECURSIVE LoadTasks(_, _)
LoadTasks(r, count) ==
  IF count = 0 \/ r.error # NULL THEN [reader |-> r, tasks |-> {}]
  ELSE LET one == LoadTask(r)
           more == LoadTasks(one.reader, count - 1)
       IN [reader |-> more.reader, tasks |-> one.tasks \cup more.tasks]

\* TaskManager.load
TaskManagerLoad(data) ==
  LET r1 == Take(Reader(data), << "U16" >>)
      loaded == LoadTasks(r1, IF r1.error = NULL THEN r1.values[1] ELSE 0)
      r2 == CheckMarker(Take(loaded.reader, << "U16" >>), 0)
  IN [reader |-> r2, tasks |-> loaded.tasks]

\* --- SaveManager.clientSave / clientLoad / serverSave / serverLoad ---------

\* the managers SaveManager saves and loads
SavedManagers ==
  { "WeatherManager", "ReleaseBodyManager", "SurgeManager", "PsyAntennaManager",
    "SoundManager", "StatisticsManager", "TreasureManager", "TaskManager",
    "ActorInputManager", "GameSettingsManager", "SimulationManager" }

\* lines 238-247
ClientSaveOrder ==
  << "WeatherManager", "ReleaseBodyManager", "SurgeManager", "PsyAntennaManager",
     "SoundManager", "StatisticsManager", "TreasureManager", "TaskManager",
     "ActorInputManager", "GameSettingsManager" >>

\* the load order with the tasks loaded before the treasures
ClientLoadOrderTasksEarly ==
  << "WeatherManager", "ReleaseBodyManager", "SurgeManager", "PsyAntennaManager",
     "SoundManager", "StatisticsManager", "TaskManager", "TreasureManager",
     "ActorInputManager", "GameSettingsManager" >>

\* lines 256-265
ClientLoadOrder ==
  << "WeatherManager", "ReleaseBodyManager", "SurgeManager", "PsyAntennaManager",
     "SoundManager", "StatisticsManager", "TreasureManager", "TaskManager",
     "ActorInputManager", "GameSettingsManager" >>

\* line 274
ServerSaveOrder == << "SimulationManager" >>

\* line 283
ServerLoadOrder == << "SimulationManager" >>

\* what the managers hold in a new game
NoHeld == [manager \in SavedManagers |-> 0]

\* manager.save(packet): the manager writes how much it holds and then that
\* many values, all in its own format
ManagerSave(manager, value) ==
  << Written(manager, value) >> \o [i \in 1..value |-> Written(manager, i)]

\* manager.load(reader): the manager reads how much was saved and then that
\* many values; what another manager wrote is not in its format
ManagerLoad(manager, r) ==
  IF r.error # NULL THEN r
  ELSE IF r.data = << >> THEN [r EXCEPT !.error = "EndOfPacket"]
  ELSE IF Head(r.data).type # manager THEN [r EXCEPT !.error = "Misread"]
  ELSE IF Len(r.data) < Head(r.data).value + 1 THEN [r EXCEPT !.error = "EndOfPacket"]
  ELSE IF \E i \in 2..(Head(r.data).value + 1) : r.data[i].type # manager
  THEN [r EXCEPT !.error = "Misread"]
  ELSE [data |-> SubSeq(r.data, Head(r.data).value + 2, Len(r.data)),
        read |-> r.read \o [i \in 1..(Head(r.data).value + 1) |-> manager],
        values |-> << Head(r.data).value >>,
        error |-> NULL]

RECURSIVE SaveInOrder(_, _)
\* the managers of order save one after the other to the same packet
SaveInOrder(order, held) ==
  IF order = << >> THEN << >>
  ELSE ManagerSave(Head(order), held[Head(order)]) \o SaveInOrder(Tail(order), held)

RECURSIVE LoadInOrder(_, _, _)
\* the managers of order load one after the other from the same reader; a
\* manager that fails to load ends the loading
LoadInOrder(order, r, held) ==
  IF order = << >> \/ r.error # NULL THEN [reader |-> r, held |-> held]
  ELSE LoadInOrder(Tail(order), ManagerLoad(Head(order), r),
                   IF ManagerLoad(Head(order), r).error # NULL THEN held
                   ELSE [held EXCEPT ![Head(order)] = ManagerLoad(Head(order), r).values[1]])

\* lines 235-248
clientSave(held) == SaveInOrder(ClientSaveOrder, held)

\* lines 253-266
clientLoad(data, held) == LoadInOrder(ClientLoadOrder, Reader(data), held)

\* lines 271-275
serverSave(held) == SaveInOrder(ServerSaveOrder, held)

\* lines 280-284
serverLoad(data, held) == LoadInOrder(ServerLoadOrder, Reader(data), held)

\* --- the status queries of TaskManager -----------------------------------

\* TaskOf that does not find a task that is completed
TaskOfUnfinished(tasks, id) == {task \in tasks : task.id = id /\ task.state # "COMPLETED"}

\* the task of the table with the given id, as a set of none or one
TaskOf(tasks, id) == {task \in tasks : task.id = id}

\* isTaskActive(id)
isTaskActive(tasks, id) == TaskOf(tasks, id) # {}

\* isTaskFailed(id), for the state task.update() has answered
isTaskFailed(tasks, id, updated) == TaskOf(tasks, id) # {} /\ updated \in {"FAIL", "REVERSED"}

\* isTaskCompleted(id), for the state task.update() has answered
isTaskCompleted(tasks, id, updated) == TaskOf(tasks, id) # {} /\ updated = "COMPLETED"

\* the table after task.update() of the task has answered updated
UpdatedTasks(tasks, id, updated) ==
  {IF task.id = id THEN [task EXCEPT !.state = updated] ELSE task : task \in tasks}

\* --- UpgradesManager ------------------------------------------------------

\* the mechanics of STALKER_UPGRADE_INFO and the upgrade sections of
\* ITEM_UPGRADES
Mechanics == {"mechanic_a", "mechanic_b", "mechanic_c"}

UpgradeSections == {"up_a", "up_b", "up_c"}

\* the lines of the section of a mechanic in STALKER_UPGRADE_INFO: mechanic_c
\* repairs only
MechanicLines(mechanic) ==
  CASE mechanic = "mechanic_a" -> {"up_a", "up_b", "up_c"}
    [] mechanic = "mechanic_b" -> {"up_a", "up_b", "up_c", "discount_condlist"}
    [] mechanic = "mechanic_c" -> {"he_upgrade_nothing", "up_a"}
    [] OTHER -> {}

\* STALKER_UPGRADE_INFO.r_string(mechanic + "_upgr", section), null standing
\* for a line that does not exist
UpgradeInfo(mechanic, section) ==
  CASE mechanic = "mechanic_a" /\ section = "up_a" -> "false"
    [] mechanic = "mechanic_a" /\ section = "up_b" -> "true"
    [] mechanic = "mechanic_b" /\ section = "up_a" -> "{=health_low} true"
    [] mechanic = "mechanic_b" /\ section = "up_b" -> "{=health_low} true, false"
    [] mechanic = "mechanic_b" /\ section = "up_c" -> "{=health_low} false, true"
    [] OTHER -> NULL

\* parseConditionsList(param)
parseConditionsList(param) ==
  CASE param = "{=health_low} true" -> << [cond |-> "health_low", section |-> "true"] >>
    [] param = "{=health_low} true, false" ->
         << [cond |-> "health_low", section |-> "true"], [cond |-> "always", section |-> "false"] >>
    [] param = "{=health_low} false, true" ->
         << [cond |-> "health_low", section |-> "false"], [cond |-> "always", section |-> "true"] >>
    [] OTHER -> << [cond |-> "always", section |-> param] >>

\* ITEM_UPGRADES.r_u32(section, "cost")
Cost(section) ==
  CASE section = "up_a" -> 100
    [] section = "up_b" -> 250
    [] OTHER -> 0

\* the values of upgradesConfig.PRICE_DISCOUNT_RATE, in hundredths
Rates == {100, 70, 33}

\* the price without the discount
PriceUndiscounted(section, discount) == Cost(section)

\* lines 78 and 155: math.floor(cost * PRICE_DISCOUNT_RATE)
Price(section, discount) == (Cost(section) * discount) \div 100

\* lines 75-81: the money of the actor after the call
getUpgradeItemPayment(money, section, loading, discount) ==
  IF loading = 0 THEN money - Price(section, discount) ELSE money

\* lines 106-117: the mechanic is not of the repair only kind and has a line
\* for the section
canUpgradeItem(section, mechanic) ==
  /\ "he_upgrade_nothing" \notin MechanicLines(mechanic)
  /\ section \in MechanicLines(mechanic)

\* lines 132-164; actor tells whether registry.actor is there
getPreconditionFunctorA(mechanic, section, healthLow, actor, money, discount) ==
  LET param == UpgradeInfo(mechanic, section)
      possibility == pickSectionFromCondList(healthLow, parseConditionsList(param))
  IN IF param # NULL /\ param = "false" THEN 1
     ELSE IF param # NULL /\ param # "true" /\ (possibility = NULL \/ possibility = "false") THEN 2
     ELSE IF actor /\ money < Price(section, discount) THEN 2
     ELSE 0

\* --- initialize / destroy -------------------------------------------------

\* EventsManager.registerCallback(event, callback, context)
registerCallback(subscribers, event, callback) ==
  subscribers \cup {[event |-> event, callback |-> callback]}

\* EventsManager.unregisterCallback(event, callback)
unregisterCallback(subscribers, event, callback) ==
  subscribers \ {[event |-> event, callback |-> callback]}

\* TaskManager.initialize and TaskManager.destroy
TaskManagerInitialize(subscribers) ==
  registerCallback(registerCallback(subscribers, "DUMP_LUA_DATA", "TaskManager.onDebugDump"),
                   "TASK_STATE_UPDATE", "TaskManager.onTaskStateUpdate")

TaskManagerDestroy(subscribers) ==
  unregisterCallback(unregisterCallback(subscribers, "DUMP_LUA_DATA", "TaskManager.onDebugDump"),
                     "TASK_STATE_UPDATE", "TaskManager.onTaskStateUpdate")

\* SaveManager.initialize and SaveManager.destroy
SaveManagerInitialize(subscribers) ==
  registerCallback(subscribers, "ACTOR_REINIT", "SaveManager.onActorReinit")

\* SaveManager.destroy that unregisters its callback from another event
SaveManagerDestroyOtherEvent(subscribers) ==
  unregisterCallback(subscribers, "DUMP_LUA_DATA", "SaveManager.onActorReinit")

SaveManagerDestroy(subscribers) ==
  unregisterCallback(subscribers, "ACTOR_REINIT", "SaveManager.onActorReinit")

\* UpgradesManager.initialize and UpgradesManager.destroy
UpgradesManagerInitialize(subscribers) ==
  registerCallback(subscribers, "DUMP_LUA_DATA", "UpgradesManager.onDebugDump")

UpgradesManagerDestroy(subscribers) ==
  unregisterCallback(subscribers, "DUMP_LUA_DATA", "UpgradesManager.onDebugDump")

\* the callbacks after initialize() and after destroy() of a manager
Initialized(manager, subscribers) ==
  CASE manager = "TaskManager" -> TaskManagerInitialize(subscribers)
    [] manager = "SaveManager" -> SaveManagerInitialize(subscribers)
    [] manager = "UpgradesManager" -> UpgradesManagerInitialize(subscribers)

Destroyed(manager, subscribers) ==
  CASE manager = "TaskManager" -> TaskManagerDestroy(subscribers)
    [] manager = "SaveManager" -> SaveManagerDestroy(subscribers)
    [] manager = "UpgradesManager" -> UpgradesManagerDestroy(subscribers)

----------------------------------------------------------------------------
(* Inputs *)

\* the target of an activation: a section, the "nil" word, or no section
\* together with what the terrain lookup then answers
Targets ==
  [section : Sections \cup {NIL}, terrain : {"unread"}]
  \cup [section : {NULL}, terrain : Terrains]

Calls == [section : Sections \cup {NIL, NULL}, terrain : Terrains \cup {"unread"},
          ini : IniNames, isLoading : BOOLEAN]

\* the activations callbacks request: a manual switch of the same object
\* with the ini of the outer activation
ReentrantSections == {NIL, "guard@b", "123"}

Hooks(ini) ==
  [at : {"reset", "activate", "event"},
   call : [section : ReentrantSections, terrain : {"unread"}, ini : {ini}, isLoading : {FALSE}]]

Plans(ini) == UNION { [1..n -> Hooks(ini)] : n \in 1..MaxNesting }

NoCall == [op |-> "init", section |-> NULL, terrain |-> "unread", ini |-> NULL,
           isLoading |-> FALSE, plan |-> << >>, healthLow |-> FALSE, offlineBefore |-> NoRecord,
           fields |-> {}, now |-> 0]

NoResolution == [ret |-> NULL, from |-> NULL]

----------------------------------------------------------------------------
(* Actions *)

Init ==
  /\ \E clsid \in ClsIds :
       /\ st = [activeSection |-> NULL, activeScheme |-> NULL, overrides |-> NoOverrides,
                activationTime |-> 0, activationGameTime |-> 0,
                schemeType |-> SchemeTypeOf(clsid), slots |-> {}]
       /\ obj = [clsid |-> clsid, manualInvisibility |-> FALSE,
                 useCallback |-> NULL, nonscriptUsable |-> FALSE]
  /\ offline = NoRecord
  /\ call = NoCall
  /\ result = "ok"
  /\ resolution = NoResolution
  /\ trace = << >>
  /\ world = NoWorld

\* the execution context a call starts in
Context(time, plan) ==
  [st |-> st, obj |-> obj, now |-> time, trace |-> << >>, error |-> NULL, plan |-> plan]

\* what the clock can answer during a call: it never runs backwards, and a
\* call that is loading does not read it
Times(isLoading) ==
  IF isLoading THEN {MaxClock}
  ELSE {t \in 1..MaxClock : t >= st.activationTime}

\* a call of activateSchemeBySection whose callbacks request what plan lists
Activation(c, plan) ==
  \E time \in Times(c.isLoading) :
  \E x \in {activateSchemeBySection(Context(time, plan), 1, c)} :
     /\ x.plan = << >>
     /\ st' = x.st
     /\ obj' = x.obj
     /\ trace' = x.trace
     /\ result' = IF x.error = NULL THEN "ok" ELSE x.error
     /\ call' = [NoCall EXCEPT !.op = "activate", !.section = c.section, !.terrain = c.terrain,
                               !.ini = c.ini, !.isLoading = c.isLoading, !.plan = plan,
                               !.now = time]
     /\ resolution' = NoResolution
     /\ UNCHANGED <<offline, world>>

\* activateSchemeBySection(object, ini, section, smartTerrainName, isLoading)
\* with callbacks that request no further activation
Activate ==
  \E t \in Targets, ini \in IniNames, isLoading \in BOOLEAN :
    Activation([section |-> t.section, terrain |-> t.terrain, ini |-> ini, isLoading |-> isLoading], << >>)

\* the same call with callbacks that request a further activation
ActivateReentrant ==
  \E section \in {NIL, "patrol@a", "guard@b"}, isLoading \in BOOLEAN :
    \E plan \in Plans("full") :
      Activation([section |-> section, terrain |-> "unread", ini |-> "full", isLoading |-> isLoading], plan)

\* getSectionToActivate(object, ini, section)
Resolve ==
  \E ini \in IniNames, section \in RequestSections, healthLow \in BOOLEAN :
    \E r \in {getSectionToActivate(offline, ini, section, healthLow)} :
       /\ offline' = r.offline
       /\ resolution' = [ret |-> r.ret, from |-> r.from]
       /\ result' = IF r.error = NULL THEN "ok" ELSE r.error
       /\ call' = [NoCall EXCEPT !.op = "resolve", !.section = section, !.ini = ini,
                                 !.healthLow = healthLow, !.offlineBefore = offline]
       /\ trace' = << >>
       /\ UNCHANGED <<st, obj, world>>

\* the object goes offline: its active section is recorded for the switch
\* back to online
Suspend ==
  /\ offline' = OfflineRecord(st.activeSection)
  /\ call' = [NoCall EXCEPT !.op = "suspend"]
  /\ result' = "ok"
  /\ resolution' = NoResolution
  /\ trace' = << >>
  /\ UNCHANGED <<st, obj, world>>

\* the terrain lookups an object that adopts a section can get answered
AdoptTerrains == {NoTerrain, "guard@b"}

\* The object adopts the section its logic asks for: the section is resolved
\* with getSectionToActivate and what comes back is handed to
\* activateSchemeBySection; a failed resolution ends the setup.
ResolveAndActivate ==
  \E ini \in IniNames, section \in RequestSections, healthLow \in BOOLEAN, terrain \in AdoptTerrains :
  \E r \in {getSectionToActivate(offline, ini, section, healthLow)} :
  \E time \in Times(FALSE) :
  \E x \in { IF r.error # NULL THEN Fail(Context(time, << >>), r.error)
              ELSE activateSchemeBySection(Context(time, << >>), 1,
                     [section |-> r.ret, terrain |-> terrain, ini |-> ini, isLoading |-> FALSE]) } :
     /\ st' = x.st
     /\ obj' = x.obj
     /\ trace' = x.trace
     /\ offline' = r.offline
     /\ resolution' = [ret |-> r.ret, from |-> r.from]
     /\ result' = IF x.error = NULL THEN "ok" ELSE x.error
     /\ call' = [NoCall EXCEPT !.op = "adopt", !.section = section, !.terrain = terrain, !.ini = ini,
                               !.healthLow = healthLow, !.offlineBefore = offline]
     /\ UNCHANGED world

\* the logics sections base schemes are enabled for
LogicsSections == {"logic", "patrol@a"}

\* enableObjectBaseSchemes(object, ini, schemeType, logicsSection) for a
\* logics section that holds the given fields
EnableBaseSchemes ==
  \E fields \in SUBSET BaseFields, logicsSection \in LogicsSections :
  \E x \in {enableObjectBaseSchemes(Context(st.activationTime, << >>), st.schemeType,
                                      fields, logicsSection)} :
     /\ st' = x.st
     /\ obj' = x.obj
     /\ trace' = x.trace
     /\ result' = IF x.error = NULL THEN "ok" ELSE x.error
     /\ call' = [NoCall EXCEPT !.op = "enable", !.section = logicsSection, !.fields = fields]
     /\ resolution' = NoResolution
     /\ UNCHANGED <<offline, world>>

\* the sections isActiveSection is asked about: a section, "nil", no section
Candidates == Sections \cup {NIL, NULL}

\* isActiveSection(object, section): the answer is kept in resolution, the
\* log of the last activation stays as it is
IsActiveQuery ==
  \E section \in Candidates :
     /\ resolution' = [ret |-> isActiveSection(section), from |-> "isActiveSection"]
     /\ call' = [NoCall EXCEPT !.op = "isActiveSection", !.section = section]
     /\ result' = "ok"
     /\ UNCHANGED <<st, obj, offline, trace, world>>

\* a step of the managers leaves the game object as it is and keeps no log
ManagerCall(op, subject) ==
  /\ call' = [NoCall EXCEPT !.op = op, !.section = subject]
  /\ trace' = << >>
  /\ UNCHANGED <<st, obj, offline>>

\* getManager(manager): the manager is created and initialized
InitializeManager ==
  \E manager \in Managers \ world.managers :
     /\ world' = [world EXCEPT !.managers = @ \cup {manager},
                               !.subscribers = Initialized(manager, @)]
     /\ result' = "ok"
     /\ resolution' = NoResolution
     /\ ManagerCall("initialize", manager)

\* disposeManager(manager)
DisposeManager ==
  \E manager \in world.managers :
     /\ world' = [world EXCEPT !.managers = @ \ {manager},
                               !.subscribers = Destroyed(manager, @)]
     /\ result' = "ok"
     /\ resolution' = NoResolution
     /\ ManagerCall("dispose", manager)

\* TaskManager.giveTask(id)
GiveTask ==
  \E id \in TaskIds :
     /\ "TaskManager" \in world.managers
     /\ TaskOf(world.tasks, id) = {}
     /\ world' = [world EXCEPT !.tasks = @ \cup {NewTask(id)}]
     /\ result' = "ok"
     /\ resolution' = NoResolution
     /\ ManagerCall("giveTask", id)

\* taskConfig.ACTIVE_TASKS.set(id, task): the game puts a task of some state
\* in the table
SetTask ==
  \E id \in TaskIds, state \in TaskStates :
     /\ world' = [world EXCEPT !.tasks = (@ \ TaskOf(@, id)) \cup {[NewTask(id) EXCEPT !.state = state]}]
     /\ result' = "ok"
     /\ resolution' = NoResolution
     /\ ManagerCall("setTask", id)

\* TaskManager.save(packet) on a new packet
SaveTasks ==
  /\ "TaskManager" \in world.managers
  /\ world.dataList = << >> /\ world.writeDataOrder = << >>
  /\ \E order \in TaskOrders(world.tasks) :
     \E written \in {TaskManagerSave(order)} :
        world' = [world EXCEPT !.dataList = [i \in DOMAIN written |-> written[i].value],
                              !.writeDataOrder = [i \in DOMAIN written |-> written[i].type],
                              !.saved = world.tasks]
  /\ result' = "ok"
  /\ resolution' = NoResolution
  /\ ManagerCall("save", NULL)

\* the game is started again to load a save: the manager is disposed and
\* created anew; the table of tasks is a new one, or, as in the test, the
\* one of before
RestartGame ==
  /\ "TaskManager" \in world.managers
  /\ world.dataList # << >>
  /\ world.readDataOrder = << >>
  /\ \E tasks \in {world.tasks, {}} :
        world' = [world EXCEPT !.tasks = tasks,
                              !.subscribers = TaskManagerInitialize(TaskManagerDestroy(@))]
  /\ result' = "ok"
  /\ resolution' = NoResolution
  /\ ManagerCall("restart", NULL)

\* TaskManager.load(reader) on the packet
LoadSavedTasks ==
  /\ "TaskManager" \in world.managers
  /\ world.dataList # << >>
  /\ world.readDataOrder = << >>
  /\ \E loaded \in {TaskManagerLoad([i \in DOMAIN world.dataList |->
                                       Written(world.writeDataOrder[i], world.dataList[i])])} :
        /\ world' = [world EXCEPT
                       !.dataList = [i \in DOMAIN loaded.reader.data |-> loaded.reader.data[i].value],
                       !.readDataOrder = loaded.reader.read,
                       !.tasks = (@ \ {task \in @ : TaskOf(loaded.tasks, task.id) # {}})
                                 \cup loaded.tasks]
        /\ result' = IF loaded.reader.error = NULL THEN "ok" ELSE loaded.reader.error
  /\ resolution' = NoResolution
  /\ ManagerCall("load", NULL)

\* new MockNetProcessor(): a new, empty packet
NewProcessor ==
  /\ world.readDataOrder # << >>
  /\ world' = [world EXCEPT !.dataList = << >>, !.writeDataOrder = << >>,
                            !.readDataOrder = << >>, !.saved = {}]
  /\ result' = "ok"
  /\ resolution' = NoResolution
  /\ ManagerCall("newProcessor", NULL)

\* isTaskActive(id), isTaskFailed(id), isTaskCompleted(id); updated is the
\* state task.update() of the task answers
QueryTask ==
  \E id \in TaskIds, updated \in TaskStates :
     /\ "TaskManager" \in world.managers
     /\ \/ /\ resolution' = [ret |-> isTaskActive(world.tasks, id), from |-> NULL]
           /\ ManagerCall("isTaskActive", id)
           /\ UNCHANGED world
        \/ /\ resolution' = [ret |-> isTaskFailed(world.tasks, id, updated), from |-> updated]
           /\ ManagerCall("isTaskFailed", id)
           /\ world' = [world EXCEPT !.tasks = UpdatedTasks(@, id, updated)]
        \/ /\ resolution' = [ret |-> isTaskCompleted(world.tasks, id, updated), from |-> updated]
           /\ ManagerCall("isTaskCompleted", id)
           /\ world' = [world EXCEPT !.tasks = UpdatedTasks(@, id, updated)]
     /\ result' = "ok"

\* the game is played: what one of four of the managers holds changes
PlayGame ==
  \E manager \in {"WeatherManager", "TaskManager", "GameSettingsManager", "SimulationManager"},
     value \in 0..MaxHeld :
     /\ world.writeDataOrder = << >>
     /\ value # world.held[manager]
     /\ world' = [world EXCEPT !.held[manager] = value]
     /\ result' = "ok"
     /\ resolution' = NoResolution
     /\ ManagerCall("play", manager)

\* SaveManager.clientSave(packet) on a new packet: the packet gets what is
\* written, and what the managers hold is kept for comparison
ClientSave ==
  /\ world.writeDataOrder = << >>
  /\ \E written \in {clientSave(world.held)} :
       world' = [world EXCEPT !.dataList = [i \in DOMAIN written |-> written[i].value],
                              !.writeDataOrder = [i \in DOMAIN written |-> written[i].type],
                              !.saved = {world.held},
                              !.kind = "client"]
  /\ result' = "ok"
  /\ resolution' = NoResolution
  /\ ManagerCall("clientSave", NULL)

\* SaveManager.serverSave(packet) on a new packet
ServerSave ==
  /\ world.writeDataOrder = << >>
  /\ \E written \in {serverSave(world.held)} :
       world' = [world EXCEPT !.dataList = [i \in DOMAIN written |-> written[i].value],
                              !.writeDataOrder = [i \in DOMAIN written |-> written[i].type],
                              !.saved = {world.held},
                              !.kind = "server"]
  /\ result' = "ok"
  /\ resolution' = NoResolution
  /\ ManagerCall("serverSave", NULL)

\* the game is left: a new game starts with managers that hold nothing
LeaveGame ==
  /\ world.writeDataOrder # << >>
  /\ world.readDataOrder = << >>
  /\ world.held # NoHeld
  /\ world' = [world EXCEPT !.held = NoHeld]
  /\ result' = "ok"
  /\ resolution' = NoResolution
  /\ ManagerCall("leave", NULL)

\* SaveManager.clientLoad(reader) on the packet of a client save
ClientLoad ==
  /\ world.kind = "client"
  /\ world.writeDataOrder # << >>
  /\ world.readDataOrder = << >>
  /\ \E loaded \in {clientLoad([i \in DOMAIN world.dataList |->
                                   Written(world.writeDataOrder[i], world.dataList[i])],
                                world.held)} :
       /\ world' = [world EXCEPT
                      !.dataList = [i \in DOMAIN loaded.reader.data |-> loaded.reader.data[i].value],
                      !.readDataOrder = loaded.reader.read,
                      !.held = loaded.held]
       /\ result' = IF loaded.reader.error = NULL THEN "ok" ELSE loaded.reader.error
  /\ resolution' = NoResolution
  /\ ManagerCall("clientLoad", NULL)

\* SaveManager.serverLoad(reader) on the packet of a server save
ServerLoad ==
  /\ world.kind = "server"
  /\ world.writeDataOrder # << >>
  /\ world.readDataOrder = << >>
  /\ \E loaded \in {serverLoad([i \in DOMAIN world.dataList |->
                                   Written(world.writeDataOrder[i], world.dataList[i])],
                                world.held)} :
       /\ world' = [world EXCEPT
                      !.dataList = [i \in DOMAIN loaded.reader.data |-> loaded.reader.data[i].value],
                      !.readDataOrder = loaded.reader.read,
                      !.held = loaded.held]
       /\ result' = IF loaded.reader.error = NULL THEN "ok" ELSE loaded.reader.error
  /\ resolution' = NoResolution
  /\ ManagerCall("serverLoad", NULL)

\* the actor is registered with the money it has
ActorSpawns ==
  \E money \in {0, 82, 250} :
     /\ ~world.actor
     /\ world' = [world EXCEPT !.actor = TRUE, !.money = money]
     /\ result' = "ok"
     /\ resolution' = NoResolution
     /\ ManagerCall("actor", NULL)

\* UpgradesManager.setCurrentPriceDiscount(rate)
SetCurrentPriceDiscount ==
  \E rate \in Rates \ {world.discount} :
     /\ world' = [world EXCEPT !.discount = rate]
     /\ result' = "ok"
     /\ resolution' = NoResolution
     /\ ManagerCall("setCurrentPriceDiscount", NULL)

\* UpgradesManager.canUpgradeItem(section, mechanicName); the condition list
\* setupDiscounts evaluates is evaluated for its effects, which are not part
\* of the manager
CanUpgradeItem ==
  \E section \in UpgradeSections, mechanic \in Mechanics :
     /\ world' = [world EXCEPT !.mechanic = mechanic]
     /\ result' = "ok"
     /\ resolution' = [ret |-> canUpgradeItem(section, mechanic), from |-> mechanic]
     /\ ManagerCall("canUpgradeItem", section)

\* UpgradesManager.getPreconditionFunctorA(name, section); healthLow is what
\* the condition of the condition list evaluates to
GetPreconditionFunctorA ==
  \E section \in UpgradeSections, healthLow \in BOOLEAN :
     /\ resolution' = [ret |-> getPreconditionFunctorA(world.mechanic, section, healthLow,
                                                      world.actor, world.money, world.discount),
                       from |-> healthLow]
     /\ result' = "ok"
     /\ ManagerCall("getPreconditionFunctorA", section)
     /\ UNCHANGED world

\* UpgradesManager.getUpgradeItemPayment(name, section, loading); an actor in
\* debt is not served any more
GetUpgradeItemPayment ==
  \E section \in UpgradeSections, loading \in {0, 1} :
     /\ world.actor
     /\ world.money >= 0
     /\ world' = [world EXCEPT !.money = getUpgradeItemPayment(@, section, loading, world.discount)]
     /\ resolution' = [ret |-> NULL, from |-> loading]
     /\ result' = "ok"
     /\ ManagerCall("getUpgradeItemPayment", section)

\* an object that runs its logic
Next == Activate

Spec == Init /\ [][Next]_vars

\* an object that goes offline and comes back online: st is the state an
\* activation of Spec has left it in
InitOffline ==
  /\ \E section \in {NULL, "patrol@a", "guard@b"} :
       st = [activeSection |-> section, activeScheme |-> getSchemeFromSection(section),
             overrides |-> IF section = NULL THEN NoOverrides ELSE <<section>>,
             activationTime |-> 1, activationGameTime |-> 1,
             schemeType |-> "STALKER",
             slots |-> IF section = NULL THEN {} ELSE {getSchemeFromSection(section)}]
  /\ obj = [clsid |-> "script_stalker", manualInvisibility |-> FALSE,
            useCallback |-> NULL, nonscriptUsable |-> FALSE]
  /\ offline \in {NoRecord, OfflineRecord(NULL)}
  /\ call = NoCall
  /\ result = "ok"
  /\ resolution = NoResolution
  /\ trace = << >>
  /\ world = NoWorld

NextOffline == Suspend \/ Resolve

SpecOffline == InitOffline /\ [][NextOffline]_vars

\* an object that adopts sections, goes offline and comes back
NextAdopt == ResolveAndActivate \/ Suspend

SpecAdopt == Init /\ [][NextAdopt]_vars

\* an object whose base schemes are enabled
NextBase == EnableBaseSchemes

SpecBase == Init /\ [][NextBase]_vars

\* a stalker and a physical object that run their logic and are asked for
\* their active section
InitQuery == Init /\ obj.clsid \in {"script_stalker", "script_object"}

NextQuery == Activate \/ IsActiveQuery

SpecQuery == InitQuery /\ [][NextQuery]_vars

\* the managers are created and disposed while tasks are given
NextManagers == InitializeManager \/ DisposeManager \/ GiveTask

InitManagers == Init /\ obj.clsid = "script_stalker"

SpecManagers == InitManagers /\ [][NextManagers]_vars

\* a game with a TaskManager: tasks are given and change, are asked about,
\* saved and loaded
InitTasks ==
  /\ st = [activeSection |-> NULL, activeScheme |-> NULL, overrides |-> NoOverrides,
           activationTime |-> 0, activationGameTime |-> 0,
           schemeType |-> "STALKER", slots |-> {}]
  /\ obj = [clsid |-> "script_stalker", manualInvisibility |-> FALSE,
            useCallback |-> NULL, nonscriptUsable |-> FALSE]
  /\ offline = NoRecord
  /\ call = NoCall
  /\ result = "ok"
  /\ resolution = NoResolution
  /\ trace = << >>
  /\ world = [NoWorld EXCEPT !.managers = {"TaskManager"},
                             !.subscribers = TaskManagerInitialize({})]

NextTasks ==
  GiveTask \/ SetTask \/ SaveTasks \/ RestartGame \/ LoadSavedTasks \/ NewProcessor \/ QueryTask

SpecTasks == InitTasks /\ [][NextTasks]_vars

\* a game whose managers are saved and loaded by SaveManager
InitSave ==
  /\ st = [activeSection |-> NULL, activeScheme |-> NULL, overrides |-> NoOverrides,
           activationTime |-> 0, activationGameTime |-> 0,
           schemeType |-> "STALKER", slots |-> {}]
  /\ obj = [clsid |-> "script_stalker", manualInvisibility |-> FALSE,
            useCallback |-> NULL, nonscriptUsable |-> FALSE]
  /\ offline = NoRecord
  /\ call = NoCall
  /\ result = "ok"
  /\ resolution = NoResolution
  /\ trace = << >>
  /\ world = [NoWorld EXCEPT !.managers = {"SaveManager"},
                             !.subscribers = SaveManagerInitialize({}),
                             !.held = NoHeld]

NextSave == PlayGame \/ ClientSave \/ ServerSave \/ LeaveGame \/ ClientLoad \/ ServerLoad \/ NewProcessor

SpecSave == InitSave /\ [][NextSave]_vars

\* an actor who has items upgraded by the mechanics
InitUpgrades ==
  /\ st = [activeSection |-> NULL, activeScheme |-> NULL, overrides |-> NoOverrides,
           activationTime |-> 0, activationGameTime |-> 0,
           schemeType |-> "STALKER", slots |-> {}]
  /\ obj = [clsid |-> "script_stalker", manualInvisibility |-> FALSE,
            useCallback |-> NULL, nonscriptUsable |-> FALSE]
  /\ offline = NoRecord
  /\ call = NoCall
  /\ result = "ok"
  /\ resolution = NoResolution
  /\ trace = << >>
  /\ world = [NoWorld EXCEPT !.managers = {"UpgradesManager"},
                             !.subscribers = UpgradesManagerInitialize({})]

NextUpgrades ==
  ActorSpawns \/ SetCurrentPriceDiscount \/ CanUpgradeItem \/ GetPreconditionFunctorA
  \/ GetUpgradeItemPayment

SpecUpgrades == InitUpgrades /\ [][NextUpgrades]_vars

NextReentrant == ActivateReentrant

SpecReentrant == Init /\ [][NextReentrant]_vars

----------------------------------------------------------------------------
(* Reading the log of the last call *)

IsActivation == call.op = "activate"

IsResolution == call.op = "resolve"

\* the operations of the log, in order
OpsOf(log) == [i \in DOMAIN log |-> log[i].op]

\* the positions of the log where op was run
At(op) == {i \in DOMAIN trace : trace[i].op = op}

\* the active section before the last activation began
PriorSection == trace[1].seen[1]

PriorOverrides == trace[1].seen[3]

\* the section recorded offline when the last resolution began
Recorded == call.offlineBefore.activeSection

----------------------------------------------------------------------------
(* C1 *)

\* C1: in every state between calls, also the state a failed activation
\* leaves behind, and in every state a callback observes during a call,
\* activeSection is null exactly when activeScheme is null.
SectionIffScheme ==
  /\ (st.activeSection = NULL) <=> (st.activeScheme = NULL)
  /\ \A i \in DOMAIN trace : (trace[i].seen[1] = NULL) <=> (trace[i].seen[2] = NULL)

\* an activation failed fatally on an object that is bound to a section
WitnessFailedWhileBound ==
  /\ IsActivation
  /\ result # "ok"
  /\ st.activeSection # NULL
  /\ st.activeScheme # NULL

----------------------------------------------------------------------------
(* C2 *)

\* the reset that ran from position b to position e of the log is the
\* complete reset of the object's scheme type for scheme and section
CompleteReset(b, e, depth, scheme, section) ==
  LET bundle == GenericBundle(st.schemeType, obj.clsid)
  IN /\ trace[b].op = "resetBegin"
     /\ trace[e].op = "resetEnd"
     /\ e = b + Len(bundle) + 1
     /\ \A k \in 1..Len(bundle) : trace[b + k].op = bundle[k]
     /\ \A k \in b..e : /\ trace[k].depth = depth
                        /\ trace[k].scheme = scheme
                        /\ trace[k].section = section

\* C2: whenever the target scheme's activate routine is invoked, the generic
\* reset for the same scheme and section has run from beginning to end
\* earlier in the same activation, for every scheme type.
ResetBeforeActivate ==
  \A i \in At("activate") :
    \E b \in 1..i, e \in 1..i :
      /\ b < e
      /\ e < i
      /\ CompleteReset(b, e, trace[i].depth, trace[i].scheme, trace[i].section)

\* a stalker's activation reached the activate routine of its scheme
WitnessActivateRan ==
  /\ IsActivation
  /\ st.schemeType = "STALKER"
  /\ At("activate") # {}
  /\ result = "ok"

----------------------------------------------------------------------------
(* C3 *)

\* C3: after activateSchemeBySection with the "nil" section, from any prior
\* state, overrides is null and no activation event was emitted by the call.
NilClearsOverrides ==
  (IsActivation /\ call.section = NIL) =>
    /\ result = "ok"
    /\ st.overrides = NoOverrides
    /\ At("emitSchemeEvent") = {}

\* the "nil" section was activated on an object bound to a section that had
\* overrides
WitnessNilFromBound ==
  /\ IsActivation
  /\ call.section = NIL
  /\ PriorSection # NULL
  /\ PriorOverrides # NoOverrides

----------------------------------------------------------------------------
(* C4 *)

\* the outcome of the last resolution is what the "active" field of the
\* requested section yields
IsActiveDefault ==
  LET d == ActiveDefault(call.ini, call.section, call.healthLow)
  IN /\ resolution.ret = d.ret
     /\ result = (IF d.error = NULL THEN "ok" ELSE d.error)

\* C4 as stated: with a recorded offline section S, resolution returns S when
\* S is defined in the configuration, for every requested section, and the
\* result of the "active" field, without failing, when S is not defined.
OfflinePreferredAlways ==
  (IsResolution /\ Recorded # NULL) =>
    IF section_exist(call.ini, Recorded)
    THEN resolution.ret = Recorded /\ result = "ok"
    ELSE resolution.from = "active" /\ result = "ok"

\* C4 as amended: with a recorded offline section S and a requested section
\* that is defined in the configuration, resolution returns S when S is
\* defined in the configuration; when S is not defined the outcome is the
\* one of the requested section's "active" field: its section, the "nil"
\* word when the section has no such field, a fatal failure when no branch
\* of the field matches.
OfflinePreferredWhenRequestExists ==
  (IsResolution /\ Recorded # NULL /\ section_exist(call.ini, call.section)) =>
    IF section_exist(call.ini, Recorded)
    THEN resolution.ret = Recorded /\ resolution.from = "offline" /\ result = "ok"
    ELSE resolution.from # "offline" /\ IsActiveDefault

\* the recorded section was returned although the "active" field of the
\* requested section yields another section
WitnessOfflineOverridesActive ==
  /\ IsResolution
  /\ Recorded # NULL
  /\ resolution.from = "offline"
  /\ resolution.ret = Recorded
  /\ ActiveDefault(call.ini, call.section, call.healthLow).ret \notin {Recorded, NIL, NULL}

----------------------------------------------------------------------------
(* C5 *)

\* C5 as stated: every resolution leaves the offline record without a
\* recorded section.
EveryResolutionConsumes ==
  IsResolution => offline.activeSection = NULL

\* C5 as amended: a resolution whose requested section is defined in the
\* configuration leaves the record without a recorded section, a resolution
\* never writes a section into the record, and a resolution returns the
\* recorded section only while clearing it; so between two suspensions the
\* recorded section is offered at most once. A resolution whose requested
\* section is not defined leaves the record as it is.
ConsumedOnceWhenRequestExists ==
  [][ (call'.op = "resolve") =>
        /\ section_exist(call'.ini, call'.section) => offline'.activeSection = NULL
        /\ ~section_exist(call'.ini, call'.section) => offline' = offline
        /\ offline'.activeSection \in {NULL, offline.activeSection}
        /\ offline'.exists = offline.exists
        /\ resolution'.from = "offline" =>
             /\ offline.activeSection = resolution'.ret
             /\ offline'.activeSection = NULL ]_vars

\* the recorded section was offered and the record is empty afterwards
WitnessRecordConsumed ==
  /\ IsResolution
  /\ Recorded # NULL
  /\ resolution.from = "offline"
  /\ offline.exists
  /\ offline.activeSection = NULL

----------------------------------------------------------------------------
(* C6 *)

\* C6: in every state between calls, also the one a failed activation leaves
\* behind, overrides is the override set of the current activeSection, and
\* null when there is no active section.
OverridesMatchActiveSection ==
  st.overrides = (IF st.activeSection = NULL THEN NoOverrides ELSE <<st.activeSection>>)

----------------------------------------------------------------------------
(* C7 *)

\* C7: a call of activateSchemeBySection with isLoading = true leaves
\* activationTime and activationGameTime as they were, for every target and
\* every prior state; a call that changes them has isLoading = false.
LoadingKeepsTimestamps ==
  [][ (call'.op = "activate" /\ call'.isLoading) =>
        /\ st'.activationTime = st.activationTime
        /\ st'.activationGameTime = st.activationGameTime ]_vars

\* a loading activation succeeded on an object whose timestamps were set by
\* an earlier activation, at a time the clock has since left behind
WitnessLoadingAfterStamp ==
  /\ IsActivation
  /\ call.isLoading
  /\ result = "ok"
  /\ st.activeSection # NULL
  /\ st.activationTime > 0
  /\ st.activationTime < MaxClock

----------------------------------------------------------------------------
(* C8 *)

\* the last activation was a successful activation of a section
ActivatedSection == IsActivation /\ result = "ok" /\ call.section # NIL

\* C8: a successful activation of a section emits exactly one activation
\* event, as its last step, after the scheme's activate routine ran and
\* after activeSection and activeScheme were committed; the event is for the
\* newly activated scheme, whose slot exists by then, and carries the
\* isLoading flag of the call.
OneEventLast ==
  ActivatedSection =>
    LET n == Len(trace)
    IN /\ At("emitSchemeEvent") = {n}
       /\ trace[n].scheme = st.activeScheme
       /\ trace[n].section = st.activeSection
       /\ trace[n].isLoading = call.isLoading
       /\ trace[n].slot
       /\ trace[n].seen[1] = st.activeSection
       /\ trace[n].seen[2] = st.activeScheme
       /\ \E a \in At("activate"), k \in At("commit") :
            /\ a < k
            /\ k < n
            /\ trace[a].scheme = trace[n].scheme
            /\ trace[k].scheme = trace[n].scheme

\* a loading activation of a section succeeded on an object whose scheme had
\* no slot before
WitnessLoadingEvent ==
  /\ ActivatedSection
  /\ call.isLoading
  /\ \E a \in At("activate") : ~trace[a].slot

----------------------------------------------------------------------------
(* C9 *)

\* the steps of a successful activation of a section
ExpectedOps ==
  << "enter" >>
  \o (IF call.isLoading THEN << >> ELSE << "stamp" >>)
  \o << "setOverrides", "resetBegin" >>
  \o GenericBundle(st.schemeType, obj.clsid)
  \o << "resetEnd", "activate", "commit" >>
  \o (IF st.schemeType = "STALKER" THEN << "sendToNearestAccessibleVertex" >> ELSE << >>)
  \o << "emitSchemeEvent" >>

\* C9: an activation of the section that is already active runs every step
\* of an activation again: the whole generic reset, the scheme's activate
\* routine and the activation event, as a switch from another section does.
ReactivationRunsAll ==
  (ActivatedSection /\ PriorSection = st.activeSection) =>
    /\ OpsOf(trace) = ExpectedOps
    /\ \A i \in At("resetBegin") \cup At("activate") \cup At("emitSchemeEvent") :
         /\ trace[i].section = st.activeSection
         /\ trace[i].scheme = st.activeScheme

\* the active section was activated again
WitnessReactivated ==
  /\ ActivatedSection
  /\ PriorSection = st.activeSection
  /\ At("activate") # {}

----------------------------------------------------------------------------
(* C10 *)

\* C10: a further activation that a callback requests for the same object
\* while an activation is in progress fails fatally and runs no step: it
\* changes no state, invokes no callback and the outer activation does not
\* complete over it.
ReentrantActivationRejected ==
  (IsActivation /\ call.plan # << >>) =>
    /\ result # "ok"
    /\ \A i \in DOMAIN trace : trace[i].depth > 1 => trace[i].op = "enter"
----------------------------------------------------------------------------
(* C11 *)

\* what the object's logic state is before the last activation, and what it
\* is once every effect of the activation is applied
Before == trace[1].seen

After ==
  IF call.section = NIL THEN << NULL, NULL, NoOverrides >>
  ELSE << TargetSection(call), getSchemeFromSection(TargetSection(call)),
          getObjectConfigOverrides(call.ini, TargetSection(call)) >>

\* the state with the overrides of the target and the section and scheme of
\* before: lines 150 and 127 are applied, lines 162-163 and 132-133 are not
Halfway == << Before[1], Before[2], After[3] >>

\* the steps of an activation that run code outside this file
CallbackOps == SchemeResetSteps \cup {"activate", "emitSchemeEvent"}

\* C11 as stated: every callback an activation invokes observes either the
\* complete state of before the activation or the complete state of after it.
CallbacksSeeWholeState ==
  IsActivation =>
    \A i \in DOMAIN trace :
      trace[i].op \in CallbackOps => trace[i].seen \in {Before, After}

\* C11: an activation without nested activations is one uninterrupted call.
\* The scheme resets and the scheme's activate it invokes observe the
\* overrides of the target with the section and scheme of before; the
\* handlers of the activation event observe the complete new state. A call
\* that returns leaves the complete new state; a call that fails at the
\* registry lookup leaves the overrides of the target with the section and
\* scheme of before, and a call that fails earlier leaves the state of before.
\* The timestamps are written before anything else unless the call is loading.
PartialStateSeenInside ==
  IsActivation =>
    /\ \A i \in DOMAIN trace :
         /\ trace[i].op \in SchemeResetSteps \cup {"activate"} => trace[i].seen = Halfway
         /\ trace[i].op = "emitSchemeEvent" => trace[i].seen = After
    /\ IF call.isLoading THEN At("stamp") = {} ELSE trace[2].op = "stamp"
    /\ result = "ok" => Seen([st |-> st]) = After
    /\ result = "SchemeNotRegistered" => Seen([st |-> st]) = Halfway
    /\ result \notin {"ok", "SchemeNotRegistered"} => Seen([st |-> st]) = Before

\* the activate of a scheme ran while the object was bound to another section
WitnessActivateSawOldSection ==
  /\ IsActivation
  /\ result = "ok"
  /\ \E i \in At("activate") :
       /\ trace[i].seen[1] # NULL
       /\ trace[i].seen[1] # trace[i].section
       /\ trace[i].seen[3] = << trace[i].section >>
----------------------------------------------------------------------------
(* C12 *)

\* the last activation names a section that exists in the ini and whose
\* scheme has no entry in the registry of schemes
TargetNotRegistered ==
  /\ IsActivation
  /\ call.section # NIL
  /\ TerrainAssigned(call)
  /\ section_exist(call.ini, TargetSection(call))
  /\ getSchemeFromSection(TargetSection(call)) # NULL
  /\ getSchemeFromSection(TargetSection(call)) \notin RegisteredSchemes

\* C12: the activation of a section whose scheme is not registered fails at
\* the registry lookup, right after the generic reset: no activate routine
\* runs, nothing is committed, the object is not repositioned, no event is
\* emitted, and the active section and scheme stay what they were.
UnregisteredSchemeStopsAtLookup ==
  TargetNotRegistered =>
    /\ result = "SchemeNotRegistered"
    /\ trace[Len(trace)].op = "resetEnd"
    /\ At("activate") = {}
    /\ At("commit") = {}
    /\ At("sendToNearestAccessibleVertex") = {}
    /\ At("emitSchemeEvent") = {}
    /\ st.activeSection = Before[1]
    /\ st.activeScheme = Before[2]
    /\ st.activeSection # TargetSection(call)

\* a stalker bound to a section was asked to activate a section of a scheme
\* that is not registered
WitnessUnregisteredWhileBound ==
  /\ TargetNotRegistered
  /\ st.schemeType = "STALKER"
  /\ st.activeSection \in {"patrol@a", "guard@b"}
  /\ result = "SchemeNotRegistered"
----------------------------------------------------------------------------
(* C13 *)

\* the last resolution got past the offline record: the requested section
\* exists and the record holds no section that exists in the ini
ReachedActiveField ==
  /\ IsResolution
  /\ section_exist(call.ini, call.section)
  /\ ~(call.offlineBefore.exists /\ Recorded # NULL /\ section_exist(call.ini, Recorded))

\* the "active" field of the requested section as the last resolution read it
ActiveField == readIniConditionList(call.ini, call.section)

\* the condition of a branch holds for the object of the last resolution
BranchHolds(branch) ==
  branch.cond = "always" \/ (branch.cond = "health_low" /\ call.healthLow)

\* C13: a resolution that reaches an "active" field of which no branch
\* matches fails with the no-else-clause assertion and returns nothing.
NoMatchingBranchIsFatal ==
  ( /\ ReachedActiveField
    /\ ActiveField # << >>
    /\ \A k \in DOMAIN ActiveField : ~BranchHolds(ActiveField[k]) )
  => /\ result = "NoElseClause"
     /\ resolution.ret = NULL

\* the resolution of a section whose only branch is conditional, for an
\* object the condition does not hold for
WitnessNoElseClause ==
  /\ ReachedActiveField
  /\ Len(ActiveField) = 1
  /\ ~BranchHolds(ActiveField[1])
  /\ result = "NoElseClause"
----------------------------------------------------------------------------
(* C14 *)

\* the last activation was called without a section
NoSectionGiven == IsActivation /\ call.section = NULL

\* C14: an activation called without a section activates the section of the
\* object's terrain job. For an object without a terrain it fails with the
\* terrain assertion before anything but the timestamps is touched; for an
\* object whose terrain holds no job for it it fails as well; in both cases
\* the object stays bound to what it was bound to.
AbsentSectionTakesTerrainJob ==
  NoSectionGiven =>
    /\ call.terrain = NoTerrain =>
         /\ result = "NotAssignedToTerrain"
         /\ At("resetBegin") = {}
         /\ Seen([st |-> st]) = Before
    /\ call.terrain = NoJob =>
         /\ result \notin {"ok", "NotAssignedToTerrain"}
         /\ At("resetBegin") = {}
         /\ Seen([st |-> st]) = Before
    /\ call.terrain \notin {NoTerrain, NoJob} =>
         /\ \A i \in DOMAIN trace :
              trace[i].op \in {"setOverrides", "resetBegin", "activate", "commit", "emitSchemeEvent"}
                => trace[i].section = call.terrain
         /\ result = "ok" <=> section_exist(call.ini, call.terrain)
         /\ result = "ok" => st.activeSection = call.terrain
         /\ result # "ok" => Seen([st |-> st]) = Before

\* an object bound to a section and without a terrain was activated without
\* a section
WitnessNoTerrainWhileBound ==
  /\ NoSectionGiven
  /\ call.terrain = NoTerrain
  /\ result = "NotAssignedToTerrain"
  /\ st.activeSection = "patrol@a"

\* an object bound to a section took over the other section from its
\* terrain job
WitnessTerrainJobActivated ==
  /\ NoSectionGiven
  /\ call.terrain = "guard@b"
  /\ Before[1] = "patrol@a"
  /\ st.activeSection = "guard@b"
----------------------------------------------------------------------------
(* C15 *)

\* a stalker adopted a section that exists in the ini and has no "active"
\* field, with no section recorded offline
AdoptedWithoutActiveField ==
  /\ call.op = "adopt"
  /\ st.schemeType = "STALKER"
  /\ section_exist(call.ini, call.section)
  /\ readIniConditionList(call.ini, call.section) = << >>
  /\ Recorded = NULL

\* C15 as stated: the section is then taken from the terrain job, and the
\* activation of an object without a terrain fails with the terrain assertion.
NoActiveFieldFallsToTerrain ==
  AdoptedWithoutActiveField =>
    IF call.terrain = NoTerrain THEN result = "NotAssignedToTerrain"
    ELSE st.activeSection = JobSection(call.terrain)

\* C15: the resolution of a section without an "active" field answers "nil",
\* and the activation of "nil" leaves the object without active section
\* whatever its terrain: no terrain is looked up, nothing fails, no scheme is
\* activated.
NoActiveFieldLeavesUnbound ==
  AdoptedWithoutActiveField =>
    /\ resolution = [ret |-> NIL, from |-> "none"]
    /\ result = "ok"
    /\ trace[1].section = NIL
    /\ At("activate") = {}
    /\ Seen([st |-> st]) = << NULL, NULL, NoOverrides >>

\* a stalker without a terrain, bound to a section, adopted a section
\* without the field
WitnessUnboundWithoutTerrain ==
  /\ AdoptedWithoutActiveField
  /\ call.terrain = NoTerrain
  /\ trace # << >>
  /\ Before[1] # NULL
  /\ st.activeSection = NULL
----------------------------------------------------------------------------
(* C16 *)

\* C16: without a section recorded offline, the resolution of an existing
\* section whose "active" field has a branch that holds returns the section
\* of the first such branch: the conditional one when its condition holds,
\* the unconditional one after it otherwise.
FirstMatchingBranchReturned ==
  ( /\ ReachedActiveField
    /\ Recorded = NULL
    /\ \E k \in DOMAIN ActiveField : BranchHolds(ActiveField[k]) )
  => \E k \in DOMAIN ActiveField :
       /\ BranchHolds(ActiveField[k])
       /\ \A j \in 1..(k - 1) : ~BranchHolds(ActiveField[j])
       /\ resolution = [ret |-> ActiveField[k].section, from |-> "active"]
       /\ result = "ok"

\* the conditional branch was taken although an unconditional one follows it
WitnessConditionalBranchTaken ==
  /\ ReachedActiveField
  /\ Recorded = NULL
  /\ Len(ActiveField) = 2
  /\ BranchHolds(ActiveField[1]) /\ BranchHolds(ActiveField[2])
  /\ resolution.ret = ActiveField[1].section
  /\ resolution.ret # ActiveField[2].section

\* the unconditional branch was taken because the conditional one did not hold
WitnessFallbackBranchTaken ==
  /\ ReachedActiveField
  /\ Recorded = NULL
  /\ Len(ActiveField) = 2
  /\ ~BranchHolds(ActiveField[1])
  /\ resolution.ret = ActiveField[2].section
----------------------------------------------------------------------------
(* C17 *)

\* the last call enabled the base schemes of a stalker
EnabledForStalker == call.op = "enable" /\ st.schemeType = "STALKER"

\* the positions of the log where the base scheme was activated
Enabled(scheme) == {i \in DOMAIN trace : trace[i].op = "enable" /\ trace[i].scheme = scheme}

\* the slots the claim calls structurally required for a stalker, and the
\* scheme each of them configures
RequiredSlots == {"on_combat", "wounded", "meet", "on_death"}

SlotScheme(field) ==
  CASE field = "on_combat" -> "combat"
    [] field = "wounded" -> "wounded"
    [] field = "meet" -> "meet"
    [] field = "on_death" -> "death"
    [] field = "on_hit" -> "hit"

\* C17 as stated: enabling the base schemes of a stalker whose logics
\* section lacks a required slot fails instead of activating that scheme.
MissingRequiredSlotIsFatal ==
  EnabledForStalker =>
    \A field \in RequiredSlots \ call.fields :
      /\ result # "ok"
      /\ Enabled(SlotScheme(field)) = {}

\* C17: enabling base schemes never fails for a missing field. For a
\* stalker, hit is activated and the info is initialized only when the
\* field is there; combat, wounded, meet and death are activated in every
\* case, once, with the section of the field or with no section when the
\* field is missing.
MissingSlotIsNeverFatal ==
  call.op = "enable" =>
    /\ result = "ok"
    /\ EnabledForStalker =>
         /\ Enabled("hit") # {} <=> "on_hit" \in call.fields
         /\ At("initializeObjectInfo") # {} <=> "info" \in call.fields
         /\ \A field \in RequiredSlots :
              /\ Cardinality(Enabled(SlotScheme(field))) = 1
              /\ \A i \in Enabled(SlotScheme(field)) :
                   trace[i].section = IF field \in call.fields THEN FieldSection(field) ELSE NULL

\* the base schemes of a stalker were enabled from a logics section without
\* wounded and meet: both schemes were activated without a section
WitnessEnabledWithoutSection ==
  /\ EnabledForStalker
  /\ call.fields = {"on_combat", "on_death"}
  /\ result = "ok"
  /\ \E i \in Enabled("wounded") : trace[i].section = NULL
  /\ \E i \in Enabled("meet") : trace[i].section = NULL
  /\ Enabled("hit") = {}
----------------------------------------------------------------------------
(* C18 *)

\* the last call resolved and activated the section of an object that had
\* an offline record
AdoptedWithRecord == call.op = "adopt" /\ call.offlineBefore.exists

----------------------------------------------------------------------------
(* C19 *)

\* C19: no call of activateSchemeBySection, whether it succeeds, fails or
\* switches to "nil", removes a slot state[scheme] that existed before it.
SlotsPersist == [][st.slots \subseteq st'.slots]_vars

\* the object switched to "nil" after two schemes had been active: both
\* slots are still there
WitnessSlotsKeptOnNil ==
  /\ IsActivation
  /\ call.section = NIL
  /\ result = "ok"
  /\ st.activeScheme = NULL
  /\ {"patrol", "guard"} \subseteq st.slots

----------------------------------------------------------------------------
(* C20 *)

\* C20: an activation sends the object to its nearest accessible vertex
\* exactly when the object is a stalker and the activation is a successful
\* one of a section other than "nil"; it does so once, after the commit of
\* the section and scheme and before the activation event.
RepositionOnlyStalker ==
  IsActivation =>
    /\ At("sendToNearestAccessibleVertex") # {}
         <=> (result = "ok" /\ call.section # NIL /\ st.schemeType = "STALKER")
    /\ Cardinality(At("sendToNearestAccessibleVertex")) <= 1
    /\ \A i \in At("sendToNearestAccessibleVertex") :
         /\ trace[i - 1].op = "commit"
         /\ trace[i - 1].section = TargetSection(call)
         /\ trace[i].seen = After
         /\ i + 1 \in At("emitSchemeEvent")

\* a stalker bound to a section switched to another one and was repositioned
WitnessStalkerRepositioned ==
  /\ IsActivation
  /\ st.schemeType = "STALKER"
  /\ Before[1] = "patrol@a"
  /\ st.activeSection = "guard@b"
  /\ At("sendToNearestAccessibleVertex") # {}

\* a monster switched section without being repositioned
WitnessMonsterNotRepositioned ==
  /\ IsActivation
  /\ st.schemeType = "MONSTER"
  /\ result = "ok"
  /\ st.activeSection = "guard@b"
  /\ At("sendToNearestAccessibleVertex") = {}
----------------------------------------------------------------------------
(* C21 *)

\* the last activation whose log is kept ran to its end for a section
LastActivationBound ==
  /\ trace # << >>
  /\ trace[Len(trace)].op = "emitSchemeEvent"
  /\ trace[Len(trace)].depth = 1

\* C21: isActiveSection answers true exactly when the section asked about is
\* the active section of the object and changes neither the state of the
\* object nor the offline record; right after a successful activation of a
\* section it answers true for that section and false for every other one.
IsActiveSectionPure ==
  [][ (call'.op = "isActiveSection") =>
        /\ st' = st /\ obj' = obj /\ offline' = offline
        /\ resolution'.ret = (call'.section = st.activeSection)
        /\ LastActivationBound =>
             resolution'.ret = (call'.section = trace[Len(trace)].section) ]_vars

\* the object was asked about the section it has just left
WitnessAskedAboutPreviousSection ==
  /\ call.op = "isActiveSection"
  /\ LastActivationBound
  /\ Before[1] = "patrol@a"
  /\ call.section = "patrol@a"
  /\ st.activeSection = "guard@b"
  /\ resolution.ret = FALSE

\* the object was asked about the section that has just been activated
WitnessAskedAboutActiveSection ==
  /\ call.op = "isActiveSection"
  /\ LastActivationBound
  /\ call.section = st.activeSection
  /\ resolution.ret = TRUE
----------------------------------------------------------------------------
(* C22 *)

\* what the test expects in the packet after the save of an empty table
\* and after the save of the one task "hide_from_surge"
ExpectedEmptySave == [types |-> << "U16", "U16" >>, data |-> << 0, 1 >>]

ExpectedTaskSave ==
  [types |-> << "U16", "STRING", "U8", "U8", "U8", "U8", "U8", "U8", "U8", "U16",
                "STRING", "STRING", "STRING", "U16", "U16" >>,
   data |-> << 1, "hide_from_surge", 2, 12, 6, 12, 9, 30, 0, 0, "hide_from_surge_name_1",
               "translated_hide_from_surge_descr_1_a", NIL, 11, 14 >>]

\* C22: the save writes what the tests expect for an empty table and for
\* one new task; the load that follows on a restarted manager succeeds,
\* reads the types in the order they were written, leaves nothing in the
\* packet and, when the table held nothing but saved tasks, leaves exactly
\* the saved tasks in the table.
SaveLoadRoundTrip ==
  [][ /\ (call'.op = "save") =>
           /\ world.tasks = {} =>
                /\ world'.writeDataOrder = ExpectedEmptySave.types
                /\ world'.dataList = ExpectedEmptySave.data
           /\ world.tasks = {NewTask("hide_from_surge")} =>
                /\ world'.writeDataOrder = ExpectedTaskSave.types
                /\ world'.dataList = ExpectedTaskSave.data
      /\ (call'.op = "load") =>
           /\ result' = "ok"
           /\ world'.readDataOrder = world.writeDataOrder
           /\ world'.dataList = << >>
           /\ world.tasks \subseteq world.saved =>
                /\ world'.tasks = world.saved
                /\ Cardinality(world'.tasks) = Cardinality(world.saved) ]_vars

\* two tasks of different states were saved and loaded into an empty table
WitnessTwoTasksLoaded ==
  /\ call.op = "load"
  /\ result = "ok"
  /\ Cardinality(world.saved) = 2
  /\ \E a, b \in world.saved : a.state = "NEW" /\ b.state = "FAIL"
  /\ world.tasks = world.saved
  /\ world.dataList = << >>
----------------------------------------------------------------------------
(* C23 *)

\* the methods of a manager
CallbacksOf(manager) ==
  CASE manager = "TaskManager" -> {"TaskManager.onDebugDump", "TaskManager.onTaskStateUpdate"}
    [] manager = "SaveManager" -> {"SaveManager.onActorReinit"}
    [] manager = "UpgradesManager" -> {"UpgradesManager.onDebugDump"}

\* the callbacks of the manager among the given subscribers
SubscribersOf(manager, subscribers) ==
  {sub \in subscribers : sub.callback \in CallbacksOf(manager)}

\* C23: initialize registers callbacks of the manager only (two for the
\* TaskManager), dispose removes every callback of the manager and no
\* callback of another manager, and neither changes the table of tasks.
DisposeUnregistersAll ==
  [][ /\ (call'.op = "initialize") =>
           /\ SubscribersOf(call'.section, world'.subscribers) # {}
           /\ call'.section = "TaskManager" =>
                Cardinality(SubscribersOf("TaskManager", world'.subscribers)) = 2
           /\ world'.subscribers \ SubscribersOf(call'.section, world'.subscribers)
                = world.subscribers
           /\ world'.tasks = world.tasks
      /\ (call'.op = "dispose") =>
           /\ SubscribersOf(call'.section, world'.subscribers) = {}
           /\ world'.subscribers = world.subscribers \ SubscribersOf(call'.section, world.subscribers)
           /\ world'.managers = {} => world'.subscribers = {}
           /\ world'.tasks = world.tasks ]_vars

\* the TaskManager was disposed while a task was active and another manager
\* listened to the same event
WitnessDisposedAmongOthers ==
  /\ call.op = "dispose"
  /\ call.section = "TaskManager"
  /\ world.managers = {"UpgradesManager"}
  /\ world.subscribers = {[event |-> "DUMP_LUA_DATA", callback |-> "UpgradesManager.onDebugDump"]}
  /\ world.tasks # {}
----------------------------------------------------------------------------
(* C24 *)

\* the states of the tasks of the given id in a table
StatesOf(tasks, id) == {task.state : task \in {t \in tasks : t.id = id}}

\* C24: isTaskActive answers whether the table holds a task of the id,
\* whatever its state, and changes nothing; isTaskFailed answers whether
\* the table holds the task and its state after the update is FAIL or
\* REVERSED; isTaskCompleted whether it holds the task and its state after
\* the update is COMPLETED; for a task that is not in the table both answer
\* false and the table stays as it is.
TaskQueriesClassify ==
  [][ /\ (call'.op = "isTaskActive") =>
           /\ resolution'.ret = (StatesOf(world.tasks, call'.section) # {})
           /\ world' = world
      /\ (call'.op = "isTaskFailed") =>
           /\ resolution'.ret = (StatesOf(world'.tasks, call'.section) \cap {"FAIL", "REVERSED"} # {})
           /\ resolution'.ret => "COMPLETED" \notin StatesOf(world'.tasks, call'.section)
      /\ (call'.op = "isTaskCompleted") =>
           /\ resolution'.ret = ("COMPLETED" \in StatesOf(world'.tasks, call'.section))
           /\ resolution'.ret => StatesOf(world'.tasks, call'.section) \cap {"FAIL", "REVERSED"} = {}
      /\ (call'.op \in {"isTaskFailed", "isTaskCompleted"}) =>
           /\ StatesOf(world.tasks, call'.section) = {} => (~resolution'.ret /\ world' = world)
           /\ StatesOf(world.tasks, call'.section) # {} =>
                StatesOf(world'.tasks, call'.section) = {resolution'.from} ]_vars

\* a completed task was asked about: it is active
WitnessCompletedTaskIsActive ==
  /\ call.op = "isTaskActive"
  /\ StatesOf(world.tasks, call.section) = {"COMPLETED"}
  /\ resolution.ret = TRUE

\* a task was asked about whose update answered REVERSED: it is failed
WitnessReversedTaskIsFailed ==
  /\ call.op = "isTaskFailed"
  /\ StatesOf(world.tasks, call.section) = {"REVERSED"}
  /\ resolution.ret = TRUE
----------------------------------------------------------------------------
(* C25 *)

\* the bundles as the claim lists them, in the words of the source
HumanoidOrder ==
  << "meet", "help_wounded", "corpse_detection", "abuse", "wounded", "death", "danger",
     "gather_items", "combat_ignore", "hear", "updateObjectMapSpot",
     "initializeObjectIgnoreThreshold", "initializeObjectInvulnerability",
     "initializeObjectGroup", "initializeObjectTakeItemsEnabledState",
     "initializeObjectCanSelectWeaponState", "activateForObject" >>

CreatureOrder ==
  << "scriptReleaseMonster", "combat_ignore", "hear", "initializeObjectInvulnerability",
     "activateForObject" >>

PropOrder == << "set_callback", "set_nonscript_usable" >>

\* the steps of the log from position b on, up to the end of the reset, the
\* toggle of the manual invisibility left out
RECURSIVE ResetStepsFrom(_)
ResetStepsFrom(b) ==
  IF b > Len(trace) \/ trace[b].op = "resetEnd" THEN << >>
  ELSE IF trace[b].op = "set_manual_invisibility" THEN ResetStepsFrom(b + 1)
  ELSE << trace[b].op >> \o ResetStepsFrom(b + 1)

\* C25: every generic reset, of a switch to a section and of a switch to
\* "nil", runs the steps of the object's scheme type in the listed order
\* from the first to the last and no other step; a bloodsucker toggles its
\* manual invisibility right after the release, a helicopter runs no step;
\* every activation that gets past its assertions runs exactly one reset.
ResetRunsBundleInOrder ==
  IsActivation =>
    /\ \A b \in At("resetBegin") :
         /\ ResetStepsFrom(b + 1) =
              ( CASE st.schemeType = "STALKER" -> HumanoidOrder
                  [] st.schemeType = "MONSTER" -> CreatureOrder
                  [] st.schemeType = "OBJECT" -> PropOrder
                  [] OTHER -> << >> )
         /\ \E e \in At("resetEnd") : e > b /\ \A k \in (b + 1)..(e - 1) : trace[k].op # "resetEnd"
         /\ obj.clsid = "bloodsucker_s" => trace[b + 2].op = "set_manual_invisibility"
    /\ At("set_manual_invisibility") # {} => obj.clsid = "bloodsucker_s"
    /\ Cardinality(At("resetBegin")) =
         IF result \in {"NotAssignedToTerrain", "UnresolvedScheme", "SectionNotExist"} THEN 0 ELSE 1
    /\ Cardinality(At("resetEnd")) = Cardinality(At("resetBegin"))

\* a monster that is no bloodsucker switched between two sections
WitnessMonsterReset ==
  /\ IsActivation
  /\ obj.clsid = "boar_s"
  /\ Before[1] = "guard@b"
  /\ st.activeSection = "patrol@a"
  /\ At("scriptReleaseMonster") # {}
----------------------------------------------------------------------------
(* C26 *)

\* C26: after every activation of a bloodsucker that ran to its end the
\* manual invisibility is on exactly when the bloodsucker has an active
\* scheme: switched on by a switch to a section, off by a switch to "nil";
\* no activation changes the manual invisibility of another object.
InvisibilityFollowsScheme ==
  [][ (call'.op = "activate") =>
        /\ (obj.clsid = "bloodsucker_s" /\ result' = "ok") =>
             /\ obj'.manualInvisibility = (st'.activeScheme # NULL)
             /\ obj'.manualInvisibility = (call'.section # NIL)
        /\ obj.clsid # "bloodsucker_s" => obj'.manualInvisibility = obj.manualInvisibility ]_vars

\* a bloodsucker that was bound to a section switched to "nil": its manual
\* invisibility is off again
WitnessBloodsuckerVisibleAgain ==
  /\ IsActivation
  /\ obj.clsid = "bloodsucker_s"
  /\ call.section = NIL
  /\ Before[2] # NULL
  /\ st.activeScheme = NULL
  /\ obj.manualInvisibility = FALSE

\* a bloodsucker switched to a section: its manual invisibility is on
WitnessBloodsuckerInvisible ==
  /\ IsActivation
  /\ obj.clsid = "bloodsucker_s"
  /\ result = "ok"
  /\ st.activeScheme = "guard"
  /\ obj.manualInvisibility = TRUE
----------------------------------------------------------------------------
(* C27 *)

\* the last activation was one of "nil"
SwitchedToNil == IsActivation /\ call.section = NIL

\* C27: a switch to "nil" never fails and runs, after the timestamps, one
\* generic reset for the scheme "nil" and then the clearing of the active
\* section and scheme. The reset already sees no overrides and still sees
\* the section and scheme of before. No scheme is activated, the object is
\* not repositioned, no event is emitted, the registry of schemes is not
\* asked (the scheme "nil" is not registered), and the object ends without
\* active section, scheme and overrides.
NilSwitchOrder ==
  SwitchedToNil =>
    /\ result = "ok"
    /\ SchemeNIL \notin RegisteredSchemes
    /\ Cardinality(At("resetBegin")) = 1
    /\ Cardinality(At("commit")) = 1
    /\ \A b \in At("resetBegin"), e \in At("resetEnd"), c \in At("commit") :
         /\ b = IF call.isLoading THEN 2 ELSE 3
         /\ c = e + 1
         /\ c = Len(trace)
         /\ \A k \in b..e :
              /\ trace[k].scheme = SchemeNIL
              /\ trace[k].section = NIL
              /\ trace[k].seen = << Before[1], Before[2], NoOverrides >>
    /\ At("setOverrides") = {}
    /\ At("activate") = {}
    /\ At("sendToNearestAccessibleVertex") = {}
    /\ At("emitSchemeEvent") = {}
    /\ Seen([st |-> st]) = << NULL, NULL, NoOverrides >>

\* a stalker bound to a section switched to "nil"
WitnessStalkerToNil ==
  /\ SwitchedToNil
  /\ st.schemeType = "STALKER"
  /\ Before = << "guard@b", "guard", << "guard@b" >> >>
  /\ st.activeSection = NULL
----------------------------------------------------------------------------
(* C28 *)

\* the last resolution read a recorded section that the ini does not define
ReadStaleRecord ==
  /\ IsResolution
  /\ section_exist(call.ini, call.section)
  /\ call.offlineBefore.exists
  /\ Recorded # NULL
  /\ ~section_exist(call.ini, Recorded)

\* C28: a resolution that reads a recorded section the ini does not define
\* empties the record whatever comes after, also when it then fails on the
\* "active" field; and no resolution that follows a failed one gets its
\* section from the record.
StaleRecordClearedOnFailure ==
  [][ /\ ReadStaleRecord' =>
           /\ offline' = OfflineRecord(NULL)
           /\ resolution'.from # "offline"
      /\ (ReadStaleRecord /\ result = "NoElseClause" /\ call'.op = "resolve") =>
           resolution'.from # "offline" ]_vars

\* the resolution failed on the "active" field after it had read a recorded
\* section that is not defined: the record is empty
WitnessRecordLostOnFailure ==
  /\ ReadStaleRecord
  /\ result = "NoElseClause"
  /\ resolution.ret = NULL
  /\ offline = OfflineRecord(NULL)
----------------------------------------------------------------------------
(* C29 *)

\* the scheme the field on_hit configures for the object of the last call
HitScheme == IF st.schemeType = "OBJECT" THEN "ph_on_hit" ELSE "hit"

\* the base scheme was activated once, with the section the field names, when
\* the logics section has the field, and not at all when it has not
EnabledIffConfigured(scheme, field) ==
  IF field \in call.fields
  THEN /\ Cardinality(Enabled(scheme)) = 1
       /\ \A i \in Enabled(scheme) : trace[i].section = FieldSection(field)
  ELSE Enabled(scheme) = {}

\* C29: enabling base schemes never fails. The hit scheme (the physical one
\* for a physical object, the generic one otherwise) is activated exactly
\* when on_hit is configured, for every scheme type; the info of a stalker
\* is initialized exactly when info is configured; the combat and death
\* schemes of a monster are activated exactly when on_combat and on_death
\* are configured; combat_ignore is activated once for a stalker and for a
\* monster; a physical object and a helicopter activate nothing but their
\* hit scheme.
OptionalSlotsIffConfigured ==
  call.op = "enable" =>
    /\ result = "ok"
    /\ EnabledIffConfigured(HitScheme, "on_hit")
    /\ st.schemeType # "OBJECT" => Enabled("ph_on_hit") = {}
    /\ st.schemeType = "STALKER" =>
         /\ At("initializeObjectInfo") # {} <=> "info" \in call.fields
         /\ \A i \in At("initializeObjectInfo") : trace[i].section = FieldSection("info")
    /\ st.schemeType # "STALKER" => At("initializeObjectInfo") = {}
    /\ st.schemeType = "MONSTER" =>
         /\ EnabledIffConfigured("mob_combat", "on_combat")
         /\ EnabledIffConfigured("mob_death", "on_death")
    /\ st.schemeType \in {"STALKER", "MONSTER"} =>
         /\ Cardinality(Enabled("combat_ignore")) = 1
         /\ \A i \in Enabled("combat_ignore") : trace[i].section = NULL
    /\ st.schemeType \in {"OBJECT", "HELICOPTER"} =>
         \A i \in DOMAIN trace : trace[i].op = "enable" /\ trace[i].scheme = HitScheme

\* the base schemes of a monster were enabled from a logics section that
\* configures on_death only
WitnessMonsterDeathOnly ==
  /\ call.op = "enable"
  /\ st.schemeType = "MONSTER"
  /\ call.fields = {"on_death"}
  /\ Enabled("mob_death") # {}
  /\ Enabled("mob_combat") = {}
  /\ Enabled("hit") = {}
  /\ Enabled("combat_ignore") # {}

\* a physical object got its physical hit scheme and nothing else
WitnessPropHit ==
  /\ call.op = "enable"
  /\ st.schemeType = "OBJECT"
  /\ call.fields = BaseFields
  /\ OpsOf(trace) = << "enable" >>
  /\ trace[1].scheme = "ph_on_hit"
----------------------------------------------------------------------------
(* C30 *)

\* the positions of the log between which the generic reset and the activate
\* of the target scheme run
InsideSwitch == {i \in DOMAIN trace : trace[i].op \in SchemeResetSteps \cup {"activate"}}

\* what isActiveSection(object, section) returns at position i of the log
isActiveSectionAt(i, section) == section = trace[i].seen[1]

\* C30: in an activation of a section s, lines 162-163 run after the activate
\* of the target scheme has returned and at most once. At every step of the
\* generic reset and at the activate of the target scheme the active section
\* and scheme are those of before the call, so that isActiveSection(object, s)
\* holds there only when s was active before, and the overrides are already
\* those of s. Once committed, the active section is s and the active scheme
\* is the scheme of s.
CommittedAfterActivate ==
  (IsActivation /\ call.section # NIL) =>
    /\ Cardinality(At("commit")) <= 1
    /\ \A i \in At("commit") :
         /\ At("activate") # {}
         /\ \A j \in InsideSwitch \cup At("setOverrides") : j < i
         /\ trace[i].seen[1] = TargetSection(call)
         /\ trace[i].seen[2] = getSchemeFromSection(TargetSection(call))
    /\ \A j \in InsideSwitch :
         /\ \E k \in At("setOverrides") : k < j
         /\ trace[j].seen[1] = Before[1]
         /\ trace[j].seen[2] = Before[2]
         /\ isActiveSectionAt(j, TargetSection(call)) <=> Before[1] = TargetSection(call)
         /\ trace[j].seen[3] = getObjectConfigOverrides(call.ini, TargetSection(call))
    /\ At("commit") = {} =>
         /\ st.activeSection = Before[1]
         /\ st.activeScheme = Before[2]

\* a switch from one section to another of another scheme completed: the
\* reset and the activate ran under the old section with overrides that were
\* not those of before, and the commit followed
WitnessSwitchCommittedLast ==
  /\ IsActivation
  /\ result = "ok"
  /\ call.section \notin {NIL, NULL}
  /\ Before[1] \notin {NULL, call.section}
  /\ Before[2] # st.activeScheme
  /\ Before[3] # st.overrides
  /\ At("commit") # {}
  /\ \E j \in InsideSwitch : trace[j].op # "activate" /\ ~isActiveSectionAt(j, call.section)
  /\ st.activeSection = call.section

\* the section that was active was activated again: isActiveSection holds
\* inside the reset and the activate
WitnessReactivationSeesItself ==
  /\ IsActivation
  /\ result = "ok"
  /\ call.section \notin {NIL, NULL}
  /\ Before[1] = call.section
  /\ \E j \in At("activate") : isActiveSectionAt(j, call.section)
----------------------------------------------------------------------------
(* C31 *)

\* the assertions of lines 140, 147 and 148
ConfigurationErrors == {"NotAssignedToTerrain", "UnresolvedScheme", "SectionNotExist"}

\* the call c names no section while the object has no terrain, or a section
\* that gives no scheme, or a section the ini does not have
Misconfigured(c) ==
  /\ c.section # NIL
  /\ \/ ~TerrainAssigned(c)
     \/ getSchemeFromSection(TargetSection(c)) = NULL
     \/ ~section_exist(c.ini, TargetSection(c))

\* C31: an activation whose target is misconfigured fails with the first of
\* the assertions of lines 140, 147, 148 that does not hold, and no other
\* activation fails with one of them. It leaves the active section, the
\* active scheme, the overrides, the slots of the schemes and the game
\* object as they were; its log holds the entry and the timestamps only: no
\* overrides are read, no reset step runs, no scheme is activated, nothing is
\* committed and no event is emitted.
EarlyFailureChangesNothing ==
  [][call'.op = "activate" =>
       /\ Misconfigured(call') <=> result' \in ConfigurationErrors
       /\ Misconfigured(call') =>
            /\ result' = (IF ~TerrainAssigned(call') THEN "NotAssignedToTerrain"
                          ELSE IF getSchemeFromSection(TargetSection(call')) = NULL
                          THEN "UnresolvedScheme" ELSE "SectionNotExist")
            /\ st'.activeSection = st.activeSection
            /\ st'.activeScheme = st.activeScheme
            /\ st'.overrides = st.overrides
            /\ st'.slots = st.slots
            /\ obj' = obj
            /\ \A i \in DOMAIN trace' : trace'[i].op \in {"enter", "stamp"}]_vars

\* a stalker bound to a section, with slots and overrides, was asked to
\* activate a section its ini does not have
WitnessBoundStalkerMissingSection ==
  /\ IsActivation
  /\ result = "SectionNotExist"
  /\ st.schemeType = "STALKER"
  /\ st.activeSection \notin {NULL, call.section}
  /\ st.slots # {}
  /\ st.overrides # NoOverrides

\* an object bound to a section was asked to take the job of a terrain it is
\* not assigned to
WitnessBoundNoTerrain ==
  /\ IsActivation
  /\ result = "NotAssignedToTerrain"
  /\ st.activeSection # NULL

\* an object bound to a section was asked to activate a section that names
\* no scheme
WitnessBoundNoScheme ==
  /\ IsActivation
  /\ result = "UnresolvedScheme"
  /\ st.activeSection # NULL
----------------------------------------------------------------------------
(* C32 *)

\* C32: a call of activateSchemeBySection with isLoading = false writes the
\* time of the call to activationTime and activationGameTime as its first
\* effect, before the target is looked at: whether the target is nil, a
\* section, or absent, and whether the call returns or fails, the two
\* timestamps are those of the call afterwards.
StampedBeforeTargetExamined ==
  [][(call'.op = "activate" /\ ~call'.isLoading) =>
       /\ st'.activationTime = call'.now
       /\ st'.activationGameTime = call'.now
       /\ call'.now >= st.activationTime
       /\ trace'[1].op = "enter"
       /\ trace'[2].op = "stamp"
       /\ At("stamp")' = {2}
       /\ trace'[2].seen = <<st.activeSection, st.activeScheme, st.overrides>>]_vars

\* a manual activation failed on an object that is bound to a section and
\* left the time of the failed call on it
WitnessFailedCallStamped ==
  /\ IsActivation
  /\ ~call.isLoading
  /\ result \in ConfigurationErrors \cup {"SchemeNotRegistered"}
  /\ st.activeSection # NULL
  /\ st.activationTime = MaxClock
  /\ call.now = MaxClock

\* a manual switch to nil stamped the object
WitnessNilStamped ==
  /\ IsActivation
  /\ ~call.isLoading
  /\ call.section = NIL
  /\ st.activationTime = call.now
  /\ st.activationTime > 1
----------------------------------------------------------------------------
(* C33 *)

\* the record read by the last resolution names a section the ini has
RecordUsable ==
  /\ call.offlineBefore.exists
  /\ Recorded # NULL
  /\ section_exist(call.ini, Recorded)

\* C33: a resolution of a section the ini does not have answers "nil"
\* without an error and leaves the offline record as it was, whatever the
\* record holds. A resolution of a section the ini has, with no usable
\* record and no field active in the section, answers "nil" without an
\* error as well.
NilWhenUndefinedOrNoActive ==
  IsResolution =>
    /\ ~section_exist(call.ini, call.section) =>
         /\ resolution.ret = NIL
         /\ result = "ok"
         /\ offline = call.offlineBefore
    /\ ( /\ section_exist(call.ini, call.section)
         /\ ~RecordUsable
         /\ readIniConditionList(call.ini, call.section) = << >> ) =>
         /\ resolution.ret = NIL
         /\ result = "ok"

\* a section the ini does not have was asked for while the record named a
\* section the ini has: the answer is "nil" and the record still names it
WitnessUndefinedKeepsUsableRecord ==
  /\ IsResolution
  /\ ~section_exist(call.ini, call.section)
  /\ RecordUsable
  /\ resolution.ret = NIL
  /\ offline.activeSection = Recorded

\* a section without the field active was asked for while the record named
\* a section the ini does not have: the answer is "nil"
WitnessNoActiveFieldStaleRecord ==
  /\ IsResolution
  /\ section_exist(call.ini, call.section)
  /\ Recorded # NULL
  /\ ~RecordUsable
  /\ readIniConditionList(call.ini, call.section) = << >>
  /\ resolution.ret = NIL
----------------------------------------------------------------------------
(* C34 *)

\* the last activation whose log is kept was a switch to "nil"
LastActivationNil ==
  /\ trace # << >>
  /\ trace[1].op = "enter"
  /\ trace[1].section = NIL

\* C34: the active section of an object is never the string "nil". A switch
\* to "nil" leaves the active section null: asked afterwards, isActiveSection
\* answers false for "nil" and for every section, and true for null. Whatever
\* the object did before, isActiveSection answers false for "nil".
SentinelNeverActive ==
  /\ st.activeSection # NIL
  /\ ~isActiveSection(NIL)
  /\ LastActivationNil =>
       /\ st.activeSection = NULL
       /\ isActiveSection(NULL)
  /\ call.op = "isActiveSection" =>
       /\ call.section = NIL => resolution.ret = FALSE
       /\ LastActivationNil => (resolution.ret <=> call.section = NULL)

\* an object that was bound to a section and switched to "nil" was asked
\* whether "nil" is its active section
WitnessAskedAboutSentinelAfterNil ==
  /\ call.op = "isActiveSection"
  /\ LastActivationNil
  /\ Before[1] # NULL
  /\ call.section = NIL
  /\ resolution.ret = FALSE

\* the same object was asked whether it has no active section
WitnessAskedAboutNoneAfterNil ==
  /\ call.op = "isActiveSection"
  /\ LastActivationNil
  /\ Before[1] # NULL
  /\ call.section = NULL
  /\ resolution.ret = TRUE
----------------------------------------------------------------------------
(* C35 *)

\* the order the managers are named in: weather, release-body, surge,
\* psy-antenna, sound, statistics, treasure, task, actor-input, game-settings
NamedOrder ==
  << "WeatherManager", "ReleaseBodyManager", "SurgeManager", "PsyAntennaManager",
     "SoundManager", "StatisticsManager", "TreasureManager", "TaskManager",
     "ActorInputManager", "GameSettingsManager" >>

RECURSIVE Squeezed(_)
\* a sequence without the repetitions of an element that follow it directly
Squeezed(seq) ==
  IF Len(seq) <= 1 THEN seq
  ELSE IF seq[1] = seq[2] THEN Squeezed(Tail(seq))
  ELSE << seq[1] >> \o Squeezed(Tail(seq))

\* C35: clientSave lets the ten managers write in the named order and
\* serverSave lets the simulation manager write. clientLoad and serverLoad
\* never fail on a packet of their save: every value of the packet is read
\* by the manager that wrote it, nothing is left unread, the managers load in
\* the order they saved in, and afterwards they hold what they held when the
\* packet was written.
LoadMirrorsSave ==
  /\ call.op = "clientSave" => Squeezed(world.writeDataOrder) = NamedOrder
  /\ call.op = "serverSave" => Squeezed(world.writeDataOrder) = << "SimulationManager" >>
  /\ call.op \in {"clientLoad", "serverLoad"} =>
       /\ result = "ok"
       /\ world.readDataOrder = world.writeDataOrder
       /\ world.dataList = << >>
       /\ Squeezed(world.readDataOrder) =
            (IF call.op = "clientLoad" THEN NamedOrder ELSE << "SimulationManager" >>)
       /\ \A held \in world.saved :
            \A manager \in SavedManagers :
              manager \in {world.readDataOrder[i] : i \in DOMAIN world.readDataOrder} =>
                world.held[manager] = held[manager]

\* a client save written while three managers held data of different
\* lengths was loaded
WitnessClientLoadedIntoNewGame ==
  /\ call.op = "clientLoad"
  /\ result = "ok"
  /\ world.held["WeatherManager"] = 2
  /\ world.held["TaskManager"] = 1
  /\ world.held["GameSettingsManager"] = 2
  /\ world.held["SimulationManager"] = 0
  /\ Len(world.readDataOrder) = 15

\* a server save written while the simulation manager held data was loaded
WitnessServerLoaded ==
  /\ call.op = "serverLoad"
  /\ result = "ok"
  /\ world.held["SimulationManager"] = 2
  /\ world.readDataOrder = << "SimulationManager", "SimulationManager", "SimulationManager" >>
----------------------------------------------------------------------------
(* C36 *)

\* p is the whole part of the hundredth of cost times rate
IsDiscounted(p, cost, rate) == p * 100 <= cost * rate /\ cost * rate < (p + 1) * 100

\* the entry of the current mechanic for a section is a condition list that
\* gives nothing or the word false when its condition evaluates to healthLow
EntryRefuses(section, healthLow) ==
  LET entry == UpgradeInfo(world.mechanic, section)
  IN /\ entry \notin {NULL, "true", "false"}
     /\ pickSectionFromCondList(healthLow, parseConditionsList(entry)) \in {NULL, "false"}

\* C36: getPreconditionFunctorA answers 1 exactly when the entry of the
\* current mechanic for the section is the word false; otherwise it answers 2
\* exactly when the entry is a condition list that gives nothing or the word
\* false, or there is an actor whose money is below the cost multiplied by the
\* discount rate and rounded down; otherwise 0. It leaves the money, the rate
\* and the mechanic as they are. getUpgradeItemPayment takes the cost
\* multiplied by the rate and rounded down from the money of the actor when
\* loading is 0, and nothing otherwise.
PreconditionAndPayment ==
  [][ /\ call'.op = "getPreconditionFunctorA" =>
          /\ world' = world
          /\ resolution'.ret \in {0, 1, 2}
          /\ resolution'.ret = 1 <=> UpgradeInfo(world.mechanic, call'.section) = "false"
          /\ resolution'.ret = 2 <=>
               /\ UpgradeInfo(world.mechanic, call'.section) # "false"
               /\ \/ EntryRefuses(call'.section, resolution'.from)
                  \/ /\ world.actor
                     /\ \E p \in 0..Cost(call'.section) :
                          /\ IsDiscounted(p, Cost(call'.section), world.discount)
                          /\ world.money < p
      /\ call'.op = "getUpgradeItemPayment" =>
          /\ world'.discount = world.discount
          /\ \E p \in 0..Cost(call'.section) :
               /\ IsDiscounted(p, Cost(call'.section), world.discount)
               /\ world'.money = (IF resolution'.from = 0 THEN world.money - p ELSE world.money)
    ]_vars

\* the actor has the discounted price of the upgrade and not the full one:
\* the upgrade is allowed
WitnessAffordableWithDiscount ==
  /\ call.op = "getPreconditionFunctorA"
  /\ world.actor
  /\ world.money >= 0
  /\ world.money < Cost(call.section)
  /\ world.discount < 100
  /\ UpgradeInfo(world.mechanic, call.section) = "true"
  /\ resolution.ret = 0

\* the entry allows the upgrade and the actor cannot pay it
WitnessTooPoor ==
  /\ call.op = "getPreconditionFunctorA"
  /\ world.actor
  /\ world.money >= 0
  /\ UpgradeInfo(world.mechanic, call.section) \notin {NULL, "false"}
  /\ ~EntryRefuses(call.section, resolution.from)
  /\ resolution.ret = 2

\* the condition list of the entry gave the word false to an actor who can pay
WitnessRefusedByEntry ==
  /\ call.op = "getPreconditionFunctorA"
  /\ world.money = 250
  /\ EntryRefuses(call.section, resolution.from)
  /\ resolution.ret = 2

\* the entry is the word false
WitnessForbidden ==
  /\ call.op = "getPreconditionFunctorA"
  /\ world.money = 250
  /\ resolution.ret = 1

\* an upgrade was paid at a discount, and one was loaded without payment
WitnessPaidWithDiscount ==
  /\ call.op = "getUpgradeItemPayment"
  /\ resolution.from = 0
  /\ world.discount = 33
  /\ world.money = 168

WitnessLoadedUnpaid ==
  /\ call.op = "getUpgradeItemPayment"
  /\ resolution.from = 1
  /\ world.money = 250

====
